---- MODULE Spec2Model ----
(***************************************************************************)
(* River data API: the readings synchroniser and the alarms synchroniser   *)
(* (sync/worker.rs, sync/scheduler.rs), the response cache                 *)
(* (services/cache.rs) and the read-side handlers with their bulk          *)
(* admission and streaming writers (routes/readings.rs,                    *)
(* routes/aggregates.rs), and the end of the process (main.rs).            *)
(*                                                                         *)
(* Conventions.  Option<T> is a sequence: <<>> is None, <<x>> is Some(x).  *)
(* A table keyed by sensor is a function whose DOMAIN is the set of keys   *)
(* that have a row.  Times are epoch seconds.  An f64 reading value v is   *)
(* kept as the integer 100*v.                                              *)
(***************************************************************************)
EXTENDS Integers, Sequences, FiniteSets, TLC

VARIABLES
    \* ---- the store ----
    sensors,          \* ids of the rows of table sensors (all is_active)
    sync_state,       \* table sync_state: [sensor id -> row]
    readings,         \* table readings: a set of rows
    readings_hourly,  \* continuous aggregate readings_hourly, as materialised
    \* ---- the environment ----
    upstream,         \* what the remote API serves: [location id -> Seq(raw point)]
    now,              \* wall clock, epoch seconds
    ticks,            \* number of ticker ticks consumed so far
    db_faults,        \* database statements that have failed so far
    fetch_faults,     \* upstream calls that have failed so far
    \* ---- run_readings_sync / sync_readings locals ----
    pc,               \* position of the readings scheduler task
    force_full_sync,
    retries,
    attempts,         \* calls of sync_readings made in the current tick
    last_error,       \* Option: `e.to_string()` of the Err arm being handled
    sync_succeeded,
    location_map,     \* [location id -> [sensor_id, last_time]]
    date_from,        \* earliest_from of the attempt's fetch, Option
    fetched,          \* history.data as received by the running attempt
    pending,          \* the resources of history.data not yet processed
    cur,              \* the resource being inserted: sensor, chunks, latest
    \* ---- history of completed passes (for the idempotence property) ----
    prev_pass,        \* Option: the last pass of sync_readings that returned Ok
    \* ---- the statements that close a tick ----
    refresh_calls,    \* Seq: the refresh statements the tick has sent to the database
    \* ---- the query surface ----
    response_cache,   \* moka cache: [key -> CachedResponse + insertion time]
    readings_permits, \* permits left in routes/readings.rs BULK_SEMAPHORE
    aggregates_permits, \* permits left in routes/aggregates.rs BULK_SEMAPHORE
    reqs,             \* the HTTP requests, in order of arrival: Seq(record)
    ingests,          \* number of inserts into readings seen by the query surface
    \* ---- run_alarms_sync / sync_alarms ----
    alarms,           \* table alarms: a set of rows
    active_alarms,    \* what the remote API lists as active alarms: Seq(attributes)
    alarm_pc,         \* position of the alarms scheduler task
    alarm_retries,
    alarm_ticks,      \* ticks of the alarms ticker consumed so far
    alarm_last,       \* history: what the last sync_alarms that returned Ok did
    \* ---- main ----
    shutdown,         \* shutdown_signal() has completed (Ctrl+C or SIGTERM)
    \* ---- sync_locations ----
    zones,            \* table zones: a set of rows
    stations,         \* table stations: a set of rows
    sensor_rows,      \* table sensors as discovery writes it: a set of rows
    hierarchy,        \* locations.data as the remote API serves it: Seq(attributes)
    last_run,         \* Option: how the last sync_locations run on this hierarchy went
    \* ---- sync_events ----
    events,           \* table events: a set of rows
    event_total,      \* Option: meta.total_record_count the remote API reports
    ev_pc,            \* position of sync_events
    ev_date_from,     \* date_from of the running sync_events
    ev_page,          \* `page`, an i32
    ev_request,       \* Option: the last get_events call sent
    ev_response       \* Option: the last page received

storeVars == <<sensors, sync_state, readings, readings_hourly>>
envVars == <<upstream, now, ticks, db_faults, fetch_faults>>
schedVars == <<pc, force_full_sync, retries, attempts, last_error, sync_succeeded, location_map,
               date_from, fetched, pending, cur, prev_pass, refresh_calls>>
apiVars == <<response_cache, readings_permits, aggregates_permits, reqs, ingests>>
alarmVars == <<alarms, active_alarms, alarm_pc, alarm_retries, alarm_ticks, alarm_last>>
discVars == <<zones, stations, sensor_rows, hierarchy, last_run>>
eventVars == <<events, event_total, ev_pc, ev_date_from, ev_page, ev_request, ev_response>>
vars == <<storeVars, envVars, schedVars, apiVars, alarmVars, shutdown, discVars, eventVars>>

None == <<>>
Some(x) == <<x>>
IsSome(o) == o # <<>>
Unwrap(o) == o[1]

(***************************************************************************)
(* Bounds of the model.                                                    *)
(***************************************************************************)
MaxPoints == 2          \* data points the upstream holds per location
MaxTicks == 2           \* ticker ticks explored
SyncRetryMax == 1       \* config.sync_retry_max of the modelled deployment
MaxDbFaults == 1        \* database statements that fail in one behaviour
MaxFetchFaults == 2     \* upstream calls that fail in one behaviour
MaxRequests == 2        \* HTTP requests in one behaviour
MaxIngests == 2         \* inserts into readings while requests are served
MaxClockSteps == 1      \* advances of the clock while requests are served
MaxAlarmTicks == 3      \* ticks of the alarms ticker explored
MaxActiveAlarms == 2    \* alarms the upstream lists as active at a time
FirstPassSeconds == 40000   \* how long the start-up pass of the long-pass runs took
ClockStep == 300        \* seconds per advance: one advance outlasts the TTL
BULK_CONCURRENT_LIMIT == 1   \* config.bulk_concurrent_limit of the modelled deployment

(***************************************************************************)
(* Program constants.                                                      *)
(***************************************************************************)
BATCH_SIZE == 1000
RoundTo == 600
FullSyncThreshold == 86400          \* Duration::hours(24)
MaxHistorySeconds == 7776000        \* Duration::days(max_history_days), 90 days
SyncReadingsInterval == 60000       \* config.sync_readings_interval_seconds
SyncRetryDelay == 60                \* config.sync_retry_delay_seconds
NowStart == 1593040000
BucketWidth == 3600                 \* time_bucket('1 hour', time)
RefreshWindow == 86400              \* NOW() - INTERVAL '24 hours'
DailyRefreshWindow == 604800        \* NOW() - INTERVAL '7 days'
CacheTtlSeconds == 300              \* config.cache_ttl_seconds
MAX_TIME_RANGE_DAYS == 90
DaySeconds == 86400                 \* Duration::days(1)

\* chrono's DateTime range.  The real limits are -8334601228800 (a day start,
\* a multiple of 600) and 8210266876799 (a day end, 599 modulo 600); the model
\* keeps the two residues and brings the limits within 32-bit integers.
ChronoMinTs == 0 - 3333333 * RoundTo
ChronoMaxTs == 3333333 * RoundTo - 1

Sensors == {"s1", "s2"}
VaisalaLocationId(s) == IF s = "s1" THEN 1001 ELSE 1002
UnknownLocation == 9999
Locations == {1001, 1002, UnknownLocation}
ResourceOrder == <<UnknownLocation, 1001, 1002>>

(***************************************************************************)
(* Raw data points of the upstream payload: [timestamp, value|null, bool], *)
(* the timestamp a JSON number with sign, integer part and tenths.         *)
(***************************************************************************)
RawTs(neg, whole, tenths) == [neg |-> neg, whole |-> whole, tenths |-> tenths]
RawA == [ts |-> RawTs(FALSE, 1593038703, 8), value |-> Some(12), logged |-> TRUE]
RawB == [ts |-> RawTs(FALSE, 1593039295, 0), value |-> Some(13), logged |-> TRUE]
RawC == [ts |-> RawTs(FALSE, 1593039900, 0), value |-> None, logged |-> TRUE]
RawN == [ts |-> RawTs(TRUE, 899, 5), value |-> Some(7), logged |-> FALSE]
RawE == [ts |-> RawTs(FALSE, ChronoMaxTs - 100, 0), value |-> Some(14), logged |-> TRUE]
RawO == [ts |-> RawTs(FALSE, ChronoMaxTs + 1000, 0), value |-> Some(15), logged |-> TRUE]
PointPool == {RawA, RawB, RawC, RawN, RawE, RawO}

\* the points each location of the modelled upstream can record
PoolOf(l) ==
    IF l = 1001 THEN {RawA, RawB, RawC, RawE}
    ELSE IF l = 1002 THEN {RawN, RawO}
    ELSE {}

(***************************************************************************)
(* Arithmetic of the target: i64 division truncates toward zero.           *)
(***************************************************************************)
TruncDiv(a, b) == IF a >= 0 THEN a \div b ELSE 0 - ((0 - a) \div b)
RustRem(a, b) == a - TruncDiv(a, b) * b

\* `raw.0 as i64`: the fraction is dropped, toward zero
F64AsI64(ts) == IF ts.neg THEN 0 - ts.whole ELSE ts.whole

\* impl From<RawDataPoint> for DataPoint
DataPoint(raw) ==
    [timestamp |-> F64AsI64(raw.ts),
     value |-> IF IsSome(raw.value) THEN Unwrap(raw.value) ELSE 0,
     logged |-> raw.logged]

RECURSIVE DataPoints(_)
DataPoints(raws) ==
    IF raws = <<>> THEN <<>> ELSE <<DataPoint(Head(raws))>> \o DataPoints(Tail(raws))

\* chrono::DateTime::from_timestamp(secs, 0): None outside the range
FromTimestamp(secs) ==
    IF ChronoMinTs <= secs /\ secs <= ChronoMaxTs THEN Some(secs) ELSE None

RoundedEpoch(epoch) == TruncDiv(epoch + 300, RoundTo) * RoundTo

\* the `time` of the row built for a point (sync_readings, the for loop)
ReadingTime(timestamp, clock) ==
    LET raw_time == IF IsSome(FromTimestamp(timestamp)) THEN timestamp ELSE clock
        rounded_epoch == RoundedEpoch(raw_time)
    IN IF IsSome(FromTimestamp(rounded_epoch)) THEN rounded_epoch ELSE raw_time

ReadingModel(sensor_id, point, clock) ==
    [sensor_id |-> sensor_id,
     time |-> ReadingTime(point.timestamp, clock),
     value |-> point.value,
     logged |-> point.logged]

RECURSIVE BuildModels(_, _, _)
BuildModels(sensor_id, points, clock) ==
    IF points = <<>> THEN <<>>
    ELSE <<ReadingModel(sensor_id, Head(points), clock)>>
         \o BuildModels(sensor_id, Tail(points), clock)

\* a loop that keeps the smallest timestamp (the comparison reversed)
RECURSIVE LatestTimestampReversed(_, _)
LatestTimestampReversed(points, latest) ==
    IF points = <<>> THEN latest
    ELSE LatestTimestampReversed(Tail(points),
            IF latest = None \/ Head(points).timestamp < Unwrap(latest)
            THEN Some(Head(points).timestamp) ELSE latest)

\* latest_timestamp as the loop over new_points leaves it
RECURSIVE LatestTimestamp(_, _)
LatestTimestamp(points, latest) ==
    IF points = <<>> THEN latest
    ELSE LatestTimestamp(Tail(points),
            IF latest = None \/ Head(points).timestamp > Unwrap(latest)
            THEN Some(Head(points).timestamp) ELSE latest)

\* the filter with the comparison weakened to >=
RECURSIVE NewPointsInclusive(_, _)
NewPointsInclusive(points, last_timestamp) ==
    IF points = <<>> THEN <<>>
    ELSE LET rest == NewPointsInclusive(Tail(points), last_timestamp)
         IN IF last_timestamp = None \/ Head(points).timestamp >= Unwrap(last_timestamp)
            THEN <<Head(points)>> \o rest ELSE rest

\* .filter(|dp| last_timestamp.is_none_or(|lt| dp.timestamp > lt))
RECURSIVE NewPoints(_, _)
NewPoints(points, last_timestamp) ==
    IF points = <<>> THEN <<>>
    ELSE LET rest == NewPoints(Tail(points), last_timestamp)
         IN IF last_timestamp = None \/ Head(points).timestamp > Unwrap(last_timestamp)
            THEN <<Head(points)>> \o rest ELSE rest

\* models.chunks(BATCH_SIZE)
RECURSIVE Chunks(_, _)
Chunks(models, n) ==
    IF models = <<>> THEN <<>>
    ELSE IF Len(models) <= n THEN <<models>>
    ELSE <<SubSeq(models, 1, n)>> \o Chunks(SubSeq(models, n + 1, Len(models)), n)

\* an insert without the primary key and its ON CONFLICT clause
RECURSIVE InsertManyNoConflict(_, _)
InsertManyNoConflict(table, chunk) ==
    IF chunk = <<>> THEN table
    ELSE InsertManyNoConflict(table \cup {Head(chunk)}, Tail(chunk))

\* INSERT ... ON CONFLICT (sensor_id, time) DO NOTHING, row by row
RECURSIVE InsertMany(_, _)
InsertMany(table, chunk) ==
    IF chunk = <<>> THEN table
    ELSE LET m == Head(chunk)
             conflict == \E r \in table : r.sensor_id = m.sensor_id /\ r.time = m.time
         IN InsertMany(IF conflict THEN table ELSE table \cup {m}, Tail(chunk))

(***************************************************************************)
(* sync_state patches.                                                     *)
(***************************************************************************)
Upsert(table, key, row) == [k \in DOMAIN table \cup {key} |-> IF k = key THEN row ELSE table[k]]

\* update_sync_state_success: last_full_sync is NotSet
SyncStateSuccess(table, sensor_id, latest_time, clock) ==
    Upsert(table, sensor_id,
        [last_data_time |-> Some(latest_time),
         last_sync_attempt |-> Some(clock),
         sync_status |-> "success",
         error_message |-> None,
         retry_count |-> 0,
         last_full_sync |-> IF sensor_id \in DOMAIN table
                            THEN table[sensor_id].last_full_sync ELSE None])

\* update_sync_state_error that writes retry_count 1 whatever the row holds
SyncStateErrorNoIncrement(table, sensor_id, error, clock, found) ==
    LET has == sensor_id \in DOMAIN table
    IN Upsert(table, sensor_id,
        [last_data_time |-> IF has THEN table[sensor_id].last_data_time ELSE None,
         last_sync_attempt |-> Some(clock),
         sync_status |-> "error",
         error_message |-> Some(error),
         retry_count |-> 1,
         last_full_sync |-> IF has THEN table[sensor_id].last_full_sync ELSE None])

\* an error upsert whose conflict clause also updates last_data_time
SyncStateErrorResetsDataTime(table, sensor_id, error, clock, found) ==
    LET has == sensor_id \in DOMAIN table
        retry_count == (IF found /\ has THEN table[sensor_id].retry_count ELSE 0) + 1
    IN Upsert(table, sensor_id,
        [last_data_time |-> None,
         last_sync_attempt |-> Some(clock),
         sync_status |-> "error",
         error_message |-> Some(error),
         retry_count |-> retry_count,
         last_full_sync |-> IF has THEN table[sensor_id].last_full_sync ELSE None])

\* update_sync_state_error: `found` is whether the find_by_id succeeded
SyncStateError(table, sensor_id, error, clock, found) ==
    LET has == sensor_id \in DOMAIN table
        retry_count == (IF found /\ has THEN table[sensor_id].retry_count ELSE 0) + 1
    IN Upsert(table, sensor_id,
        [last_data_time |-> IF has THEN table[sensor_id].last_data_time ELSE None,
         last_sync_attempt |-> Some(clock),
         sync_status |-> "error",
         error_message |-> Some(error),
         retry_count |-> retry_count,
         last_full_sync |-> IF has THEN table[sensor_id].last_full_sync ELSE None])

RECURSIVE SyncStateErrorAll(_, _, _, _, _, _)
SyncStateErrorAll(table, todo, error, clock, findOk, upsertOk) ==
    IF todo = {} THEN table
    ELSE LET s == CHOOSE x \in todo : TRUE
             t == IF s \in upsertOk
                  THEN SyncStateError(table, s, error, clock, s \in findOk) ELSE table
         IN SyncStateErrorAll(t, todo \ {s}, error, clock, findOk, upsertOk)

\* update_last_full_sync_for_all_sensors: the rows of sync_state, not of sensors
LastFullSyncAll(table, clock, updateOk) ==
    [k \in DOMAIN table |->
        IF k \in updateOk THEN [table[k] EXCEPT !.last_full_sync = Some(clock)]
        ELSE table[k]]

\* a needs_full_sync that passes over the rows that were never fully synced
NeedsFullSyncStampedOnly(table, clock) ==
    \/ DOMAIN table = {}
    \/ \E k \in DOMAIN table :
         /\ table[k].last_full_sync # None
         /\ clock - Unwrap(table[k].last_full_sync) > FullSyncThreshold

\* needs_full_sync, given the rows it read
NeedsFullSync(table, clock) ==
    \/ DOMAIN table = {}
    \/ \E k \in DOMAIN table :
         \/ table[k].last_full_sync = None
         \/ clock - Unwrap(table[k].last_full_sync) > FullSyncThreshold

(***************************************************************************)
(* The hourly rollup: CREATE MATERIALIZED VIEW readings_hourly ... GROUP BY *)
(* time_bucket('1 hour', time), sensor_id.  AVG is kept as <<sum, count>>.  *)
(***************************************************************************)
TimeBucket(t) == (t \div BucketWidth) * BucketWidth

RECURSIVE SumValues(_)
SumValues(rows) ==
    IF rows = {} THEN 0
    ELSE LET r == CHOOSE x \in rows : TRUE IN r.value + SumValues(rows \ {r})

HourlyRow(table, bucket, sensor_id) ==
    LET g == {r \in table : r.sensor_id = sensor_id /\ TimeBucket(r.time) = bucket}
    IN [bucket |-> bucket,
        sensor_id |-> sensor_id,
        avg_value |-> <<SumValues(g), Cardinality(g)>>,
        min_value |-> CHOOSE v \in {r.value : r \in g} : \A r \in g : v <= r.value,
        max_value |-> CHOOSE v \in {r.value : r \in g} : \A r \in g : v >= r.value,
        count |-> Cardinality(g)]

HourlyView(table) == {HourlyRow(table, TimeBucket(r.time), r.sensor_id) : r \in table}

\* CALL refresh_continuous_aggregate('readings_hourly', from, to): the buckets
\* that lie within the window are materialised again, the others are kept
RefreshContinuousAggregate(view, table, from, to) ==
    LET within(b) == from <= b /\ b + BucketWidth <= to
    IN {v \in view : ~within(v.bucket)} \cup {v \in HourlyView(table) : within(v.bucket)}

\* refresh_continuous_aggregates_full: every bucket of every rollup
RefreshFull(table) == HourlyView(table)

\* CALL refresh_continuous_aggregate(view, from, to) as a statement
RefreshCall(view, from, to) == [view |-> view, from |-> from, to |-> to]

\* the statements without the daily rollup
RefreshCallsHourlyOnly(clock) ==
    <<RefreshCall("readings_hourly", Some(clock - RefreshWindow), Some(clock))>>

\* refresh_continuous_aggregates: the two statements, in the order it sends them
RefreshCalls(clock) ==
    <<RefreshCall("readings_hourly", Some(clock - RefreshWindow), Some(clock)),
      RefreshCall("readings_daily", Some(clock - DailyRefreshWindow), Some(clock))>>

\* the rollups of the schema
Rollups == <<"readings_hourly", "readings_daily", "readings_weekly", "readings_monthly">>

\* refresh_continuous_aggregates_full: one unbounded statement per rollup
RefreshFullCalls == [i \in 1..Len(Rollups) |-> RefreshCall(Rollups[i], None, None)]

(***************************************************************************)
(* The initial state: an empty store, nothing cached, no request running,  *)
(* the readings scheduler about to run discovery.                          *)
(***************************************************************************)
EmptyTable == [k \in {} |-> None]
NoCur ==
    [sensor_id |-> "", chunks |-> <<>>, latest_timestamp |-> None, new_points |-> <<>>,
     failed |-> FALSE]

PendingRow ==
    [last_data_time |-> None, last_sync_attempt |-> None, sync_status |-> "pending",
     error_message |-> None, retry_count |-> 0, last_full_sync |-> None]

InitStore == sensors = {} /\ sync_state = EmptyTable /\ readings = {} /\ readings_hourly = {}
InitEnv ==
    /\ upstream = [l \in Locations |-> IF l = UnknownLocation THEN <<RawA>> ELSE <<>>]
    /\ now = NowStart
    /\ ticks = 0
    /\ db_faults = 0
    /\ fetch_faults = 0
InitSched ==
    /\ pc = "discover"
    /\ force_full_sync = FALSE
    /\ retries = 0
    /\ attempts = 0
    /\ last_error = None
    /\ sync_succeeded = FALSE
    /\ location_map = EmptyTable
    /\ date_from = None
    /\ fetched = <<>>
    /\ pending = <<>>
    /\ cur = NoCur
    /\ prev_pass = None
    /\ refresh_calls = <<>>

(***************************************************************************)
(* The upstream records a data point.  The payload is read only by the     *)
(* fetch of an attempt, so a change while an attempt is processing is the  *)
(* same as one made before the next fetch.                                 *)
(***************************************************************************)
InSeq(x, seq) == \E i \in 1..Len(seq) : seq[i] = x

UpstreamRecord(l, p) ==
    /\ pc \in {"discover", "wait"}
    /\ ticks < MaxTicks
    /\ Len(upstream[l]) < MaxPoints
    /\ ~InSeq(p, upstream[l])
    /\ p \in PoolOf(l)
    /\ upstream' = [upstream EXCEPT ![l] = Append(@, p)]
    /\ UNCHANGED <<storeVars, now, ticks, db_faults, fetch_faults, schedVars, apiVars, alarmVars, shutdown, discVars, eventVars>>

\* n database statements of the step fail (their Err is logged or dropped)
DbFaults(n) == db_faults + n <= MaxDbFaults /\ db_faults' = db_faults + n
Fault(ok) == IF ok THEN 0 ELSE 1

(***************************************************************************)
(* sync_locations, as far as the readings sync depends on it: the sensors  *)
(* it creates and the sync_state row it tries to create for each           *)
(* (`let _ = sync.insert(db).await`).  A failed get_locations creates      *)
(* nothing.                                                                *)
(***************************************************************************)
SyncLocations ==
    /\ pc = "discover"
    /\ \E created \in SUBSET Sensors : \E with_state \in SUBSET created :
         /\ DbFaults(Cardinality(Sensors \ created) + Cardinality(created \ with_state))
         /\ sensors' = created
         /\ sync_state' = [s \in with_state |-> PendingRow]
    /\ pc' = "decide"
    /\ UNCHANGED <<readings, readings_hourly, upstream, now, ticks, fetch_faults, force_full_sync, retries, attempts, last_error, sync_succeeded,
                   location_map, date_from, fetched, pending, cur, prev_pass, apiVars, alarmVars, shutdown, refresh_calls, discVars, eventVars>>

\* sync_locations returns Err (get_locations or get_locations_data failed):
\* the scheduler logs it and goes on with the sensors it has
SyncLocationsFails ==
    /\ pc = "discover"
    /\ fetch_faults < MaxFetchFaults
    /\ fetch_faults' = fetch_faults + 1
    /\ pc' = "decide"
    /\ UNCHANGED <<storeVars, upstream, now, ticks, db_faults, force_full_sync, retries, attempts, last_error,
                   sync_succeeded, location_map, date_from, fetched, pending, cur,
                   prev_pass, apiVars, alarmVars, shutdown, refresh_calls, discVars, eventVars>>

(***************************************************************************)
(* run_readings_sync: the top of the outer loop.                           *)
(***************************************************************************)
DecideFullSync ==
    /\ pc = "decide"
    /\ \E db_ok \in BOOLEAN :
         /\ DbFaults(Fault(db_ok))
         /\ force_full_sync' = (IF db_ok THEN NeedsFullSync(sync_state, now) ELSE TRUE)
    /\ retries' = 0
    /\ attempts' = 0
    /\ last_error' = None
    /\ sync_succeeded' = FALSE
    /\ refresh_calls' = <<>>
    /\ pc' = "attempt"
    /\ UNCHANGED <<storeVars, upstream, now, ticks, fetch_faults, location_map, date_from, fetched, pending,
                   cur, prev_pass, apiVars, alarmVars, shutdown, discVars, eventVars>>

(***************************************************************************)
(* The errors sync_readings returns: `#[error("Vaisala API error: {0}")]`  *)
(* around the message of get_locations_history, `#[error("Database error:  *)
(* {0}")]` around a DbErr.                                                 *)
(***************************************************************************)
RateLimited == "Rate limited (429)"
HttpNotFound == "HTTP 404 Not Found: "
ErrorMessages == {RateLimited, HttpNotFound}
VaisalaApi(msg) == "Vaisala API error: " \o msg
Database(msg) == "Database error: " \o msg
DbErr == "Connection Error: pool timed out"

\* e.to_string().contains("Rate limited"), over the errors above
ContainsRateLimited(e) == e = VaisalaApi(RateLimited)

\* a call of sync_readings by the retry loop
SyncReadingsCalled == attempts' = attempts + 1

\* the Err(e) arm with the cap missing from the rate-limit branch
ErrArmRateLimitUncapped(e) ==
    /\ retries' = retries + 1
    /\ pc' = IF ContainsRateLimited(e) THEN "sleep"
             ELSE IF retries + 1 <= SyncRetryMax THEN "sleep"
             ELSE "finish"
    /\ last_error' = Some(e)
    /\ prev_pass' = None
    /\ UNCHANGED <<force_full_sync, sync_succeeded>>

\* the Err(e) arm of the match on sync_readings
ErrArm(e) ==
    /\ retries' = retries + 1
    /\ pc' = IF ContainsRateLimited(e) /\ retries + 1 <= SyncRetryMax THEN "sleep"
             ELSE IF retries + 1 <= SyncRetryMax THEN "sleep"
             ELSE "finish"
    /\ last_error' = Some(e)
    /\ prev_pass' = None
    /\ UNCHANGED <<force_full_sync, sync_succeeded>>

\* sync_readings: the query for the active sensors fails (`.await?`)
AttemptLoadFails ==
    /\ pc = "attempt"
    /\ DbFaults(1)
    /\ SyncReadingsCalled
    /\ ErrArm(Database(DbErr))
    /\ UNCHANGED <<storeVars, upstream, now, ticks, fetch_faults, location_map, date_from, fetched, pending,
                   cur, apiVars, alarmVars, shutdown, refresh_calls, discVars, eventVars>>

\* sync_readings: no active sensor, Ok(()) at once
AttemptNoSensors ==
    /\ pc = "attempt"
    /\ sensors = {}
    /\ SyncReadingsCalled
    /\ sync_succeeded' = TRUE
    /\ pc' = "finish"
    /\ UNCHANGED <<storeVars, envVars, force_full_sync, retries, last_error, location_map,
                   date_from, fetched, pending, cur, prev_pass, apiVars, alarmVars, shutdown, refresh_calls, discVars, eventVars>>

LocationMap ==
    [l \in {VaisalaLocationId(s) : s \in sensors} |->
        LET s == CHOOSE x \in sensors : VaisalaLocationId(x) = l
        IN [sensor_id |-> s,
            last_time |-> IF force_full_sync \/ s \notin DOMAIN sync_state
                          THEN None ELSE sync_state[s].last_data_time]]

SetMin(S) == CHOOSE x \in S : \A y \in S : x <= y

\* the bound taken from the sensor that is furthest ahead
EarliestFromLatest(map, clock) ==
    LET max_history_start == clock - MaxHistorySeconds
        starts == {IF IsSome(map[l].last_time) THEN Unwrap(map[l].last_time)
                   ELSE max_history_start : l \in DOMAIN map}
    IN CHOOSE x \in starts : \A y \in starts : x >= y

EarliestFrom(map, clock) ==
    LET max_history_start == clock - MaxHistorySeconds
    IN SetMin({IF IsSome(map[l].last_time) THEN Unwrap(map[l].last_time)
               ELSE max_history_start : l \in DOMAIN map})

RECURSIVE Resources(_)
Resources(order) ==
    IF order = <<>> THEN <<>>
    ELSE LET l == Head(order)
             rest == Resources(Tail(order))
         IN <<[id |-> l, data_points |-> DataPoints(upstream[l])]>> \o rest

\* sync_readings: get_locations_history fails
AttemptFetchFails ==
    /\ pc = "attempt"
    /\ sensors # {}
    /\ fetch_faults < MaxFetchFaults
    /\ fetch_faults' = fetch_faults + 1
    /\ \E e \in ErrorMessages : \E find_ok \in SUBSET sensors : \E upsert_ok \in SUBSET sensors :
         /\ DbFaults(Cardinality(sensors \ find_ok) + Cardinality(sensors \ upsert_ok))
         /\ sync_state' = SyncStateErrorAll(sync_state, sensors, VaisalaApi(e), now,
                                            find_ok, upsert_ok)
         /\ ErrArm(VaisalaApi(e))
    /\ SyncReadingsCalled
    /\ location_map' = LocationMap
    /\ date_from' = Some(EarliestFrom(LocationMap, now))
    /\ UNCHANGED <<sensors, readings, readings_hourly, upstream, now, ticks, fetched, pending, cur, apiVars, alarmVars, shutdown, refresh_calls, discVars, eventVars>>

\* sync_readings: get_locations_history answers
AttemptFetch ==
    /\ pc = "attempt"
    /\ sensors # {}
    /\ SyncReadingsCalled
    /\ location_map' = LocationMap
    /\ date_from' = Some(EarliestFrom(LocationMap, now))
    /\ fetched' = Resources(ResourceOrder)
    /\ pending' = Resources(ResourceOrder)
    /\ pc' = "resources"
    /\ UNCHANGED <<storeVars, envVars, force_full_sync, retries, last_error, sync_succeeded,
                   cur, prev_pass, apiVars, alarmVars, shutdown, refresh_calls, discVars, eventVars>>

\* sync_readings: the head of `for resource in history.data`, up to the models
ProcessResource ==
    /\ pc = "resources"
    /\ pending # <<>>
    /\ LET attrs == Head(pending)
           known == attrs.id \in DOMAIN location_map
           new_points == IF known
                         THEN NewPoints(attrs.data_points, location_map[attrs.id].last_time)
                         ELSE <<>>
       IN IF new_points = <<>>
          THEN /\ pc' = "resources"
               /\ cur' = NoCur
          ELSE /\ pc' = "chunks"
               /\ cur' = [sensor_id |-> location_map[attrs.id].sensor_id,
                          chunks |-> Chunks(BuildModels(location_map[attrs.id].sensor_id,
                                                        new_points, now), BATCH_SIZE),
                          latest_timestamp |-> LatestTimestamp(new_points, None),
                          new_points |-> new_points,
                          failed |-> FALSE]
    /\ pending' = Tail(pending)
    /\ UNCHANGED <<storeVars, envVars, force_full_sync, retries, attempts, last_error, sync_succeeded,
                   location_map, date_from, fetched, prev_pass, apiVars, alarmVars, shutdown, refresh_calls, discVars, eventVars>>

\* one turn of `for chunk in models.chunks(BATCH_SIZE)`; an Err is only logged
InsertChunk ==
    /\ pc = "chunks"
    /\ cur.chunks # <<>>
    /\ \E db_ok \in BOOLEAN :
         /\ DbFaults(Fault(db_ok))
         /\ readings' = IF db_ok THEN InsertMany(readings, Head(cur.chunks)) ELSE readings
         /\ cur' = [cur EXCEPT !.chunks = Tail(@), !.failed = @ \/ ~db_ok]
    /\ UNCHANGED <<sensors, sync_state, readings_hourly, upstream, now, ticks, fetch_faults,
                   pc, force_full_sync, retries, attempts, last_error, sync_succeeded, location_map, date_from,
                   fetched, pending, prev_pass, apiVars, alarmVars, shutdown, refresh_calls, discVars, eventVars>>

\* after the chunks: update_sync_state_success, if latest is a valid DateTime
UpdateSyncState ==
    /\ pc = "chunks"
    /\ cur.chunks = <<>>
    /\ IF IsSome(cur.latest_timestamp) /\ IsSome(FromTimestamp(Unwrap(cur.latest_timestamp)))
       THEN \E db_ok \in BOOLEAN :
              /\ DbFaults(Fault(db_ok))
              /\ sync_state' = IF db_ok
                               THEN SyncStateSuccess(sync_state, cur.sensor_id,
                                                     Unwrap(cur.latest_timestamp), now)
                               ELSE sync_state
       ELSE UNCHANGED <<sync_state, db_faults>>
    /\ pc' = "resources"
    /\ cur' = NoCur
    /\ UNCHANGED <<sensors, readings, readings_hourly, upstream, now, ticks, fetch_faults,
                   force_full_sync, retries, attempts, last_error, sync_succeeded, location_map, date_from,
                   fetched, pending, prev_pass, apiVars, alarmVars, shutdown, refresh_calls, discVars, eventVars>>

SyncProjection(table) ==
    [k \in DOMAIN table |->
        [last_data_time |-> table[k].last_data_time,
         sync_status |-> table[k].sync_status,
         retry_count |-> table[k].retry_count]]

\* sync_readings returns Ok(()); the Ok arm of the scheduler's match
ReturnOk ==
    /\ pc = "resources"
    /\ pending = <<>>
    /\ sync_succeeded' = TRUE
    /\ pc' = "finish"
    /\ prev_pass' = Some([fetched |-> fetched, readings |-> readings,
                          sync |-> SyncProjection(sync_state), full |-> force_full_sync])
    /\ UNCHANGED <<storeVars, envVars, force_full_sync, retries, attempts, last_error, location_map,
                   date_from, fetched, pending, cur, apiVars, alarmVars, shutdown, refresh_calls, discVars, eventVars>>

\* run_readings_sync after the retry loop: the last_full_sync stamps and the
\* refresh of the rollups (an Err of either is only logged)
FinishTick ==
    /\ pc = "finish"
    /\ \E find_ok \in BOOLEAN : \E update_ok \in SUBSET (DOMAIN sync_state) :
       \E refresh_ok \in BOOLEAN :
         LET full == force_full_sync /\ sync_succeeded
             stamp_faults == IF ~full THEN 0
                             ELSE IF find_ok THEN Cardinality(DOMAIN sync_state \ update_ok)
                             ELSE 1
         IN /\ full \/ (find_ok /\ update_ok = DOMAIN sync_state)
            /\ sync_succeeded \/ refresh_ok
            /\ find_ok \/ update_ok = {}
            /\ DbFaults(stamp_faults + Fault(refresh_ok))
            /\ sync_state' = IF full /\ find_ok
                              THEN LastFullSyncAll(sync_state, now, update_ok)
                              ELSE sync_state
            /\ readings_hourly' =
                 IF ~sync_succeeded \/ ~refresh_ok THEN readings_hourly
                 ELSE IF force_full_sync THEN RefreshFull(readings)
                 ELSE RefreshContinuousAggregate(readings_hourly, readings,
                                                 now - RefreshWindow, now)
    /\ refresh_calls' = IF ~sync_succeeded THEN <<>>
                        ELSE IF force_full_sync THEN RefreshFullCalls
                        ELSE RefreshCalls(now)
    /\ pc' = "wait"
    /\ last_error' = None
    /\ UNCHANGED <<sensors, readings, upstream, now, ticks, fetch_faults, force_full_sync,
                   retries, attempts, sync_succeeded, location_map, date_from, fetched, pending,
                   cur, prev_pass, apiVars, alarmVars, shutdown, discVars, eventVars>>

\* tokio::time::sleep(retry_delay) between two attempts of a tick
RetrySleep ==
    /\ pc = "sleep"
    /\ now' = now + SyncRetryDelay
    /\ pc' = "attempt"
    /\ last_error' = None
    /\ UNCHANGED <<storeVars, upstream, ticks, db_faults, fetch_faults, force_full_sync, retries, attempts, sync_succeeded,
                   location_map, date_from, fetched, pending, cur, prev_pass, apiVars, alarmVars, shutdown, refresh_calls, discVars, eventVars>>

\* a ticker that fires once
WaitTickOnce ==
    /\ pc = "wait"
    /\ ticks < 1
    /\ ticks' = ticks + 1
    /\ now' = LET due == NowStart + (ticks + 1) * SyncReadingsInterval
              IN IF due > now THEN due ELSE now
    /\ pc' = "decide"
    /\ UNCHANGED <<storeVars, upstream, db_faults, fetch_faults, force_full_sync, retries, attempts, last_error, sync_succeeded,
                   location_map, date_from, fetched, pending, cur, prev_pass, apiVars, alarmVars, shutdown, refresh_calls, discVars, eventVars>>

\* ticker.tick(): the next multiple of the interval since the start
WaitTick ==
    /\ pc = "wait"
    /\ ticks < MaxTicks
    /\ ticks' = ticks + 1
    /\ now' = LET due == NowStart + (ticks + 1) * SyncReadingsInterval
              IN IF due > now THEN due ELSE now
    /\ pc' = "decide"
    /\ UNCHANGED <<storeVars, upstream, db_faults, fetch_faults, force_full_sync, retries, attempts, last_error, sync_succeeded,
                   location_map, date_from, fetched, pending, cur, prev_pass, apiVars, alarmVars, shutdown, refresh_calls, discVars, eventVars>>

InitApiIdle ==
    /\ response_cache = EmptyTable
    /\ readings_permits = BULK_CONCURRENT_LIMIT
    /\ aggregates_permits = BULK_CONCURRENT_LIMIT
    /\ reqs = <<>>
    /\ ingests = 0

\* the alarms scheduler before its first tick, no alarm stored or listed
NoAlarmSync == [deactivated |-> {}, reactivated |-> {}, created |-> {}]

InitAlarmsIdle ==
    /\ alarms = {}
    /\ active_alarms = <<>>
    /\ alarm_pc = "wait"
    /\ alarm_retries = 0
    /\ alarm_ticks = 0
    /\ alarm_last = NoAlarmSync
    /\ shutdown = FALSE

\* nothing discovered yet, the remote hierarchy empty
InitDiscoveryIdle ==
    /\ zones = {}
    /\ stations = {}
    /\ sensor_rows = {}
    /\ hierarchy = <<>>
    /\ last_run = None

\* no event stored, sync_events not running
InitEventsIdle ==
    /\ events = {}
    /\ event_total = None
    /\ ev_pc = "idle"
    /\ ev_date_from = "7d"
    /\ ev_page = 1
    /\ ev_request = None
    /\ ev_response = None

Init == InitStore /\ InitEnv /\ InitSched /\ InitApiIdle /\ InitAlarmsIdle /\ InitDiscoveryIdle /\ InitEventsIdle

Next ==
    \/ \E l \in Locations : \E p \in PointPool : UpstreamRecord(l, p)
    \/ SyncLocations
    \/ SyncLocationsFails
    \/ DecideFullSync
    \/ AttemptLoadFails
    \/ AttemptNoSensors
    \/ AttemptFetchFails
    \/ AttemptFetch
    \/ ProcessResource
    \/ InsertChunk
    \/ UpdateSyncState
    \/ ReturnOk
    \/ FinishTick
    \/ RetrySleep
    \/ WaitTick

Spec == Init /\ [][Next]_vars

(***************************************************************************)
(* Properties of the readings synchroniser.                                *)
(***************************************************************************)
RowsOf(s) == {r \in readings : r.sensor_id = s}

\* the step of sync_readings that applies update_sync_state_success
SuccessPatchApplied ==
    /\ pc = "chunks"
    /\ cur.chunks = <<>>
    /\ sync_state' # sync_state

\* C1: every row of readings has a time that is a multiple of 600 seconds.
C1_ReadingTimesOnBoundary ==
    \A r \in readings : RustRem(r.time, RoundTo) = 0

\* C2 (as stated): once a tick has succeeded, the last_data_time of a sensor
\* whose state is success is at least the time of every row stored for it.
C2_LastDataTimeCoversStoredTimes ==
    (pc = "wait" /\ sync_succeeded) =>
        \A s \in DOMAIN sync_state :
            (sync_state[s].sync_status = "success" /\ IsSome(sync_state[s].last_data_time)) =>
                \A r \in RowsOf(s) : r.time <= Unwrap(sync_state[s].last_data_time)

\* C2 (amended): when the success patch is applied for a sensor, its
\* last_data_time becomes a value that is at least the truncated, pre-rounding
\* epoch of every point processed for it in that batch.
C2_LastDataTimeCoversBatchEpochs ==
    [][SuccessPatchApplied =>
        /\ cur.sensor_id \in DOMAIN sync_state'
        /\ IsSome(sync_state'[cur.sensor_id].last_data_time)
        /\ \A i \in 1..Len(cur.new_points) :
             cur.new_points[i].timestamp
                <= Unwrap(sync_state'[cur.sensor_id].last_data_time)]_vars

\* C2 witness: a sensor in state success with a stored row later than its
\* last_data_time (the rounding moved the row up).
C2_Witness ==
    \E s \in DOMAIN sync_state :
        /\ sync_state[s].sync_status = "success"
        /\ IsSome(sync_state[s].last_data_time)
        /\ \E r \in RowsOf(s) : r.time > Unwrap(sync_state[s].last_data_time)

\* C3: when last_data_time is advanced for a sensor, every point of the batch
\* it is advanced over is stored in readings.
C3_AdvanceOnlyOverStoredPoints ==
    [][SuccessPatchApplied =>
        \A i \in 1..Len(cur.new_points) :
            \E r \in RowsOf(cur.sensor_id) :
                r.time = ReadingTime(cur.new_points[i].timestamp, now)]_vars

\* C4: readings holds at most one row per (sensor, time), and no step changes
\* or removes a row that is there.
UniqueKeys(table) ==
    \A r1 \in table : \A r2 \in table :
        (r1.sensor_id = r2.sensor_id /\ r1.time = r2.time) => r1 = r2

C4_NoDuplicatesRowsKept ==
    [][UniqueKeys(readings') /\ readings \subseteq readings']_vars

\* C4 witness: a pass is over and a fetched point collided with a stored row
\* that carries another value.
C4_Witness ==
    /\ pc = "finish"
    /\ \E i \in 1..Len(fetched) :
         /\ fetched[i].id \in DOMAIN location_map
         /\ \E j \in 1..Len(fetched[i].data_points) : \E r \in readings :
              /\ r.sensor_id = location_map[fetched[i].id].sensor_id
              /\ r.time = ReadingTime(fetched[i].data_points[j].timestamp, now)
              /\ r.value # fetched[i].data_points[j].value

\* C5: a pass of sync_readings over the payload of the pass before it inserts
\* no row and leaves last_data_time, status and retry count of every sensor
\* as that pass left them.
C5_SecondPassIdempotent ==
    [][(pc = "resources" /\ pending = <<>> /\ IsSome(prev_pass)
          /\ Unwrap(prev_pass).fetched = fetched) =>
        /\ readings = Unwrap(prev_pass).readings
        /\ SyncProjection(sync_state) = Unwrap(prev_pass).sync]_vars

\* C6: after a tick that ran as a full sync and succeeded, every active sensor
\* has a sync_state row whose last_full_sync is the completion time.
C6_LastFullSyncForEverySensor ==
    (pc = "wait" /\ force_full_sync /\ sync_succeeded) =>
        \A s \in sensors :
            /\ s \in DOMAIN sync_state
            /\ sync_state[s].last_full_sync = Some(now)

\* C13: in one tick sync_readings is called at most SyncRetryMax + 1 times; a
\* failed call is followed by the retry sleep while the failures of the tick
\* are at most SyncRetryMax and by the end of the tick otherwise, whatever the
\* error; the sleep lasts SyncRetryDelay; the end of the tick makes no call.
C13_AttemptsWithinRetryBudget ==
    [][/\ attempts' <= SyncRetryMax + 1
       /\ attempts' # attempts =>
             \/ pc = "attempt" /\ attempts' = attempts + 1
             \/ pc = "decide" /\ attempts' = 0
       /\ retries' = retries + 1 =>
             pc' = IF retries' <= SyncRetryMax THEN "sleep" ELSE "finish"
       /\ pc = "sleep" /\ pc' # "sleep" =>
             pc' = "attempt" /\ now' = now + SyncRetryDelay
       /\ pc = "finish" => attempts' = attempts /\ pc' \in {"finish", "wait"}]_vars

\* C13 witness: a tick given up after SyncRetryMax + 1 calls that all failed,
\* the last of them rate limited.
C13_Witness ==
    /\ pc = "finish"
    /\ ~sync_succeeded
    /\ attempts = SyncRetryMax + 1
    /\ retries = SyncRetryMax + 1
    /\ last_error = Some(VaisalaApi(RateLimited))

\* the failures the retry is meant for: HTTP 429 and a network timeout
RequestTimedOut == "Request failed: operation timed out"
IsTransient(e) == e \in {VaisalaApi(RateLimited), VaisalaApi(RequestTimedOut)}

\* C14: a failed call of sync_readings is retried only if its error is a
\* transient upstream failure.
C14_RetryOnlyTransientFailures ==
    [][(retries' = retries + 1 /\ pc' = "sleep") => IsTransient(Unwrap(last_error'))]_vars

\* the step of an attempt whose get_locations_history fails
FetchFailedStep == pc = "attempt" /\ fetch_faults' = fetch_faults + 1

PreviousRetryCount(s) == IF s \in DOMAIN sync_state THEN sync_state[s].retry_count ELSE 0

ErrorPatched(s, retry_count) ==
    /\ s \in DOMAIN sync_state'
    /\ sync_state'[s].sync_status = "error"
    /\ sync_state'[s].error_message = last_error'
    /\ sync_state'[s].retry_count = retry_count

RowUnchanged(s) ==
    IF s \in DOMAIN sync_state
    THEN s \in DOMAIN sync_state' /\ sync_state'[s] = sync_state[s]
    ELSE s \notin DOMAIN sync_state'

ErrorRecorded(s) ==
    /\ s \in DOMAIN sync_state'
    /\ sync_state'[s].sync_status = "error"
    /\ IsSome(sync_state'[s].error_message)

\* C16: a failed load of the sensors leaves every sensor's sync_state in error
\* with a message, and so does a failed batch insert for the sensor of the
\* batch once its chunks are done; the scheduler goes on in both cases.
C16_DatabaseFailureRecorded ==
    [][/\ (pc = "attempt" /\ retries' = retries + 1 /\ fetch_faults' = fetch_faults) =>
             /\ \A s \in sensors : ErrorRecorded(s)
             /\ pc' \in {"sleep", "finish"}
       /\ (pc = "chunks" /\ cur.chunks = <<>> /\ cur.failed) =>
             /\ ErrorRecorded(cur.sensor_id)
             /\ pc' = "resources"]_vars

\* the step that takes the decision of a tick
DecisionStep == pc = "decide" /\ pc' = "attempt"

\* a row of sync_state that was never fully synced, or more than 24 hours ago
FullSyncDue(row) ==
    \/ row.last_full_sync = None
    \/ now - Unwrap(row.last_full_sync) > FullSyncThreshold

\* C27: the tick is a full sync iff the query of sync_state fails, returns no
\* row, or returns a row whose last_full_sync is missing or older than 24
\* hours.  The mode is decided in the step before the first attempt of the
\* tick and no other step changes it.
C27_FullSyncDecidedOncePerTick ==
    [][/\ DecisionStep =>
             /\ attempts' = 0
             /\ force_full_sync' =
                   (\/ db_faults' > db_faults
                    \/ DOMAIN sync_state = {}
                    \/ \E k \in DOMAIN sync_state : FullSyncDue(sync_state[k]))
       /\ ~DecisionStep => force_full_sync' = force_full_sync]_vars

\* C27 witness: the second attempt of an incremental tick is about to run,
\* every row of sync_state carrying a full sync of less than 24 hours ago.
C27_Witness ==
    /\ pc = "attempt"
    /\ attempts = 1
    /\ retries = 1
    /\ ~force_full_sync
    /\ DOMAIN sync_state # {}
    /\ \A k \in DOMAIN sync_state : ~FullSyncDue(sync_state[k])

\* the step of an attempt that calls get_locations_history
FetchCall ==
    /\ pc = "attempt"
    /\ sensors # {}
    /\ pc' = "resources" \/ fetch_faults' > fetch_faults

HasLastDataTime(s) == s \in DOMAIN sync_state /\ IsSome(sync_state[s].last_data_time)

\* what a sensor contributes to the bound
CountedLastDataTime(s) ==
    IF force_full_sync \/ ~HasLastDataTime(s) THEN now - MaxHistorySeconds
    ELSE Unwrap(sync_state[s].last_data_time)

FromIsCountedMinimum ==
    /\ IsSome(date_from')
    /\ \E s \in sensors : Unwrap(date_from') = CountedLastDataTime(s)
    /\ \A s \in sensors : Unwrap(date_from') <= CountedLastDataTime(s)

\* C28, as stated: the from bound of the one get_locations_history call of an
\* attempt is the minimum over the active sensors of last_data_time, an absent
\* one or a full sync counting as now - max_history_days, and it is never
\* later than the last_data_time of any active sensor.
C28_FromNeverAfterLastDataTime ==
    [][FetchCall =>
         /\ FromIsCountedMinimum
         /\ \A s \in sensors :
              HasLastDataTime(s) =>
                  Unwrap(date_from') <= Unwrap(sync_state[s].last_data_time)]_vars

\* C28, amended: the from bound is that minimum; in an incremental sync it is
\* never later than the last_data_time of any active sensor, and in a full
\* sync it is now - max_history_days whatever the sensors' last_data_time.
C28_FromIsMinimumOfLastDataTimes ==
    [][FetchCall =>
         /\ FromIsCountedMinimum
         /\ ~force_full_sync =>
               \A s \in sensors :
                   HasLastDataTime(s) =>
                       Unwrap(date_from') <= Unwrap(sync_state[s].last_data_time)
         /\ force_full_sync => date_from' = Some(now - MaxHistorySeconds)]_vars

C28_Witness ==
    /\ pc = "resources"
    /\ ~force_full_sync
    /\ \E l \in DOMAIN location_map : \E m \in DOMAIN location_map :
         /\ IsSome(location_map[l].last_time)
         /\ IsSome(location_map[m].last_time)
         /\ Unwrap(location_map[l].last_time) < Unwrap(location_map[m].last_time)
         /\ date_from = location_map[l].last_time

\* the head of the loop over the fetched resources takes the next resource
ResourceStep == pc = "resources" /\ pending # <<>> /\ pending' = Tail(pending)

SensorAt(location) == {s \in sensors : VaisalaLocationId(s) = location}

PassesFilter(point, s) ==
    \/ force_full_sync
    \/ ~HasLastDataTime(s)
    \/ point.timestamp > Unwrap(sync_state[s].last_data_time)

\* the points of the resource that go on to the batch insert are exactly
\* those that pass the filter
FilterKeepsExactly ==
    ResourceStep =>
        \A s \in SensorAt(Head(pending).id) :
            LET points == Head(pending).data_points
            IN \A i \in 1..Len(points) :
                   InSeq(points[i], cur'.new_points) <=> PassesFilter(points[i], s)

\* one INSERT of the loop over the chunks
InsertStep == pc = "chunks" /\ cur.chunks # <<>> /\ cur'.chunks = Tail(cur.chunks)

RowAtKey(table, m) == \E r \in table : r.sensor_id = m.sensor_id /\ r.time = m.time

\* C29, as stated: in an incremental sync a returned point is inserted if and
\* only if its truncated timestamp is strictly greater than the sensor's
\* last_data_time (every point when there is none); in a full sync the filter
\* drops nothing; the row of a point that passes is in the table after the
\* INSERT.
C29_InsertedIffNewer ==
    [][/\ FilterKeepsExactly
       /\ InsertStep =>
             \A i \in 1..Len(Head(cur.chunks)) : Head(cur.chunks)[i] \in readings']_vars

\* C29, amended: the filter keeps exactly those points for the batch INSERT;
\* the INSERT either fails as a whole and leaves the table as it was, or
\* leaves a row at the (sensor_id, time) of every point it was given, the
\* point's own row or the one that was there before.
C29_FilterKeepsNewerPoints ==
    [][/\ FilterKeepsExactly
       /\ InsertStep =>
             \/ readings' = readings /\ db_faults' = db_faults + 1
             \/ \A i \in 1..Len(Head(cur.chunks)) : RowAtKey(readings', Head(cur.chunks)[i])]_vars

\* an incremental pass has dropped a point of the resource and kept another
C29_Witness ==
    /\ pc = "chunks"
    /\ ~force_full_sync
    /\ Len(fetched) > Len(pending)
    /\ LET resource == fetched[Len(fetched) - Len(pending)]
       IN /\ cur.new_points # <<>>
          /\ Len(cur.new_points) < Len(resource.data_points)
          /\ resource.id \in DOMAIN location_map
          /\ IsSome(location_map[resource.id].last_time)

\* the step that closes a tick: what follows the retry loop, up to the ticker
FinishStep == pc = "finish" /\ pc' = "wait"

BoundedRefresh ==
    <<[view |-> "readings_hourly", from |-> Some(now - 86400), to |-> Some(now)],
      [view |-> "readings_daily", from |-> Some(now - 604800), to |-> Some(now)]>>

FullRefreshOf(view) == [view |-> view, from |-> None, to |-> None]

StampsKept == \A k \in DOMAIN sync_state : sync_state'[k].last_full_sync = sync_state[k].last_full_sync

ErrorPatchOf(k) ==
    /\ pc = "attempt"
    /\ sync_state'[k] # sync_state[k]

\* the step after the chunks of a sensor that writes its row
SuccessPatchOf(k) == SuccessPatchApplied /\ cur.sensor_id = k /\ sync_state'[k] # sync_state[k]

\* C31: the upserts of sync_state are patches.  A row is never removed; the
\* error patch leaves last_data_time and last_full_sync of an existing row as
\* they were; the success patch leaves last_full_sync as it was; a row that a
\* patch creates has no last_full_sync; and last_full_sync changes only in
\* the step that closes a successful full sync, to the time of that step.
C31_SyncStatePatchesKeepOtherColumns ==
    [][/\ \A k \in DOMAIN sync_state :
            /\ k \in DOMAIN sync_state'
            /\ ErrorPatchOf(k) =>
                  /\ sync_state'[k].sync_status = "error"
                  /\ sync_state'[k].last_data_time = sync_state[k].last_data_time
                  /\ sync_state'[k].last_full_sync = sync_state[k].last_full_sync
            /\ SuccessPatchOf(k) =>
                  /\ sync_state'[k].last_full_sync = sync_state[k].last_full_sync
                  /\ sync_state'[k].sync_status = "success"
            /\ sync_state'[k].last_full_sync # sync_state[k].last_full_sync =>
                  /\ FinishStep /\ force_full_sync /\ sync_succeeded
                  /\ sync_state'[k].last_full_sync = Some(now)
       /\ \A k \in DOMAIN sync_state' \ DOMAIN sync_state :
            sync_state'[k].last_full_sync = None]_vars

\* a row that holds a data time and a full-sync stamp has been patched to error
C31_Witness ==
    /\ pc = "sleep"
    /\ \E k \in DOMAIN sync_state :
         /\ sync_state[k].sync_status = "error"
         /\ IsSome(sync_state[k].last_data_time)
         /\ IsSome(sync_state[k].last_full_sync)

\* C36: the last_data_time of a sync_state row never goes back: once it has a
\* value, no step makes it absent and no step makes it smaller.
C36_LastDataTimeNeverDecreases ==
    [][\A k \in DOMAIN sync_state :
          IsSome(sync_state[k].last_data_time) =>
              /\ k \in DOMAIN sync_state'
              /\ IsSome(sync_state'[k].last_data_time)
              /\ Unwrap(sync_state'[k].last_data_time) >= Unwrap(sync_state[k].last_data_time)]_vars

\* a full sync, which filters nothing, has rewritten a last_data_time that
\* was there, and an error patch has passed over one
C36_Witness ==
    /\ pc = "resources"
    /\ force_full_sync
    /\ Len(fetched) > Len(pending)
    /\ LET resource == fetched[Len(fetched) - Len(pending)]
       IN /\ resource.id \in DOMAIN location_map
          /\ LET s == location_map[resource.id].sensor_id
             IN /\ s \in DOMAIN sync_state
                /\ sync_state[s].sync_status = "success"
                /\ sync_state[s].last_sync_attempt = Some(now)
                /\ prev_pass # None
                /\ s \in DOMAIN Unwrap(prev_pass).sync
                /\ IsSome(Unwrap(prev_pass).sync[s].last_data_time)

(***************************************************************************)
(* The end of the process (main.rs).  main awaits axum::serve with         *)
(* with_graceful_shutdown(shutdown_signal()) and returns when the server   *)
(* has drained; the runtime of #[tokio::main] is then dropped and with it  *)
(* the tasks main spawned, each at the await it is suspended in.  The      *)
(* schedulers receive no handle on the signal.                             *)
(***************************************************************************)
\* shutdown_signal() completes: Ctrl+C or SIGTERM has arrived
ShutdownSignal ==
    /\ ~shutdown
    /\ pc # "dropped"
    /\ shutdown' = TRUE
    /\ UNCHANGED <<storeVars, envVars, schedVars, apiVars, alarmVars, discVars, eventVars>>

\* axum::serve returns, main returns Ok(()): the readings task is dropped
RuntimeDropped ==
    /\ shutdown
    /\ pc # "dropped"
    /\ pc' = "dropped"
    /\ UNCHANGED <<storeVars, envVars, force_full_sync, retries, attempts, last_error,
                   sync_succeeded, location_map, date_from, fetched, pending, cur,
                   prev_pass, apiVars, alarmVars, shutdown, refresh_calls, discVars, eventVars>>

\* the process from its start, with the signal; of the failures, one upstream
\* call can still fail and no database statement
InitShutdown ==
    /\ InitStore
    /\ upstream = [l \in Locations |-> IF l = UnknownLocation THEN <<RawA>> ELSE <<>>]
    /\ now = NowStart
    /\ ticks = 0
    /\ db_faults = MaxDbFaults
    /\ fetch_faults = MaxFetchFaults - 1
    /\ InitSched
    /\ InitApiIdle
    /\ InitAlarmsIdle /\ InitDiscoveryIdle /\ InitEventsIdle

NextShutdown ==
    \/ \E l \in Locations : \E p \in PointPool : UpstreamRecord(l, p)
    \/ SyncLocations
    \/ SyncLocationsFails
    \/ DecideFullSync
    \/ AttemptNoSensors
    \/ AttemptFetchFails
    \/ AttemptFetch
    \/ ProcessResource
    \/ InsertChunk
    \/ UpdateSyncState
    \/ ReturnOk
    \/ FinishTick
    \/ RetrySleep
    \/ WaitTick
    \/ ShutdownSignal
    \/ RuntimeDropped

SpecShutdown == InitShutdown /\ [][NextShutdown]_vars

\* C21: once shutdown is signalled the readings scheduler starts no new tick
\* and no new retry, and it ends only at a tick boundary: not inside discovery,
\* an upstream call, a batch of inserts or the work that closes a tick.
C21_SchedulerStopsAtTickBoundary ==
    [][/\ (shutdown /\ pc = "wait") => pc' # "decide"
       /\ (shutdown /\ pc = "sleep") => pc' # "attempt"
       /\ (pc # "dropped" /\ pc' = "dropped") => pc = "wait"]_vars

(***************************************************************************)
(* Runs whose start-up pass was long.  Discovery has created both sensors  *)
(* with their rows, the pass ran as a full sync, found no point and ended  *)
(* FirstPassSeconds after the start; its stamp reached a row or failed on  *)
(* it.  Two ticks then fall within 24 hours of the stamps.                 *)
(***************************************************************************)
InitResync ==
    /\ sensors = Sensors
    /\ sync_state \in [Sensors -> {PendingRow,
                                  [PendingRow EXCEPT !.last_full_sync = Some(NowStart + FirstPassSeconds)]}]
    /\ readings = {}
    /\ readings_hourly = {}
    /\ upstream = [l \in Locations |-> <<>>]
    /\ now = NowStart + FirstPassSeconds
    /\ ticks = 0
    /\ db_faults = 0
    /\ fetch_faults = 0
    /\ pc = "wait"
    /\ force_full_sync = TRUE
    /\ retries = 0
    /\ attempts = 1
    /\ last_error = None
    /\ sync_succeeded = TRUE
    /\ location_map = LocationMap
    /\ date_from = Some(NowStart + FirstPassSeconds - MaxHistorySeconds)
    /\ fetched = Resources(ResourceOrder)
    /\ pending = <<>>
    /\ cur = NoCur
    /\ prev_pass = None
    /\ refresh_calls = RefreshFullCalls
    /\ InitApiIdle
    /\ InitAlarmsIdle /\ InitDiscoveryIdle /\ InitEventsIdle

NextResync ==
    \/ \E l \in Locations : \E p \in PointPool : UpstreamRecord(l, p)
    \/ DecideFullSync
    \/ AttemptLoadFails
    \/ AttemptFetchFails
    \/ AttemptFetch
    \/ ProcessResource
    \/ InsertChunk
    \/ UpdateSyncState
    \/ ReturnOk
    \/ FinishTick
    \/ RetrySleep
    \/ WaitTick

SpecResync == InitResync /\ [][NextResync]_vars

\* the table asks for a full sync: no row, or a row never stamped or stale
StampDue == DOMAIN sync_state = {} \/ \E k \in DOMAIN sync_state : FullSyncDue(sync_state[k])

\* the decision that follows a tick which ran as a full sync and failed
DecisionAfterFailedFullSync == DecisionStep /\ force_full_sync /\ ~sync_succeeded /\ attempts > 0

StampsWrittenOnlyByFullSuccess ==
    /\ \A k \in DOMAIN sync_state :
         sync_state'[k].last_full_sync # sync_state[k].last_full_sync =>
             FinishStep /\ force_full_sync /\ sync_succeeded
    /\ (FinishStep /\ ~sync_succeeded) => sync_state' = sync_state

\* C37, as stated: last_full_sync is written only by the step that closes a
\* successful full sync; a full sync that failed on every attempt leaves
\* every last_full_sync as it was, and the tick after it is a full sync again.
C37_FailedFullSyncRepeats ==
    [][/\ StampsWrittenOnlyByFullSuccess
       /\ DecisionAfterFailedFullSync => force_full_sync']_vars

\* C37, amended: last_full_sync is written only by the step that closes a
\* successful full sync; a table that asks for a full sync goes on asking
\* through every other step, so after a full sync that failed on every
\* attempt the next tick is a full sync again if the table asked for it.  (A
\* tick made full by a failed sync_state query alone need not be followed by
\* a full sync.)
C37_FailedFullSyncRepeatsWhileDue ==
    [][/\ StampsWrittenOnlyByFullSuccess
       /\ (StampDue /\ ~(FinishStep /\ force_full_sync /\ sync_succeeded)) => StampDue'
       /\ (DecisionAfterFailedFullSync /\ StampDue) => force_full_sync']_vars

\* the second tick starts as a full sync after a first tick that was one and
\* failed on both attempts
C37_Witness ==
    /\ pc = "attempt"
    /\ attempts = 0
    /\ ticks = 2
    /\ fetch_faults = MaxFetchFaults
    /\ force_full_sync
    /\ \E k \in DOMAIN sync_state : sync_state[k].last_full_sync = None

(***************************************************************************)
(* Progress of the readings scheduler.  The remote history is fixed; the   *)
(* task is scheduled fairly: an await that can complete does (timers fire, *)
(* the HTTP client gives up after its timeout, a statement returns Ok or   *)
(* Err).                                                                   *)
(***************************************************************************)
InitLive ==
    /\ InitStore
    /\ upstream = [l \in Locations |-> IF l = 1001 THEN <<RawA, RawB>>
                                       ELSE IF l = 1002 THEN <<RawN, RawO>> ELSE <<RawA>>]
    /\ now = NowStart
    /\ ticks = 0
    /\ db_faults = 0
    /\ fetch_faults = 0
    /\ InitSched
    /\ InitApiIdle
    /\ InitAlarmsIdle /\ InitDiscoveryIdle /\ InitEventsIdle

NextLive ==
    \/ SyncLocations
    \/ SyncLocationsFails
    \/ DecideFullSync
    \/ AttemptLoadFails
    \/ AttemptNoSensors
    \/ AttemptFetchFails
    \/ AttemptFetch
    \/ ProcessResource
    \/ InsertChunk
    \/ UpdateSyncState
    \/ ReturnOk
    \/ FinishTick
    \/ RetrySleep
    \/ WaitTick

SpecLive == InitLive /\ [][NextLive]_vars /\ WF_vars(NextLive)

\* C38: the readings scheduler never stops or hangs.  Wherever it is in a
\* pass, it gets to wait for the ticker, whether the pass succeeds, runs out
\* of retries or follows a failed discovery; and from each wait the next tick
\* starts a new pass with its first attempt.
C38_SchedulerAlwaysReachesNextTick ==
    /\ (pc # "wait") ~> (pc = "wait")
    /\ \A n \in 0..(MaxTicks - 1) :
         (pc = "wait" /\ ticks = n) ~> (pc = "attempt" /\ ticks = n + 1 /\ attempts = 0)

\* retries ran out in the tick before, and the ticker has woken the scheduler
C38_Witness ==
    /\ pc = "decide"
    /\ ticks >= 1
    /\ ~sync_succeeded
    /\ attempts = SyncRetryMax + 1

(***************************************************************************)
(* The query surface.  Station st1 owns the two sensors, station st0 owns  *)
(* none.  A response body is kept as the value that serde serialises; the  *)
(* static metadata of a sensor (name, type, units, station) is left out.   *)
(***************************************************************************)
Stations == {"st1", "st0"}
StationSensors(station) == IF station = "st1" THEN Sensors ELSE {}
SensorOrder == <<"s1", "s2">>

WindowStart == NowStart - 4000
WindowEnd == NowStart + 1000
MaxTimeRange == MAX_TIME_RANGE_DAYS * DaySeconds

\* LOWER(name) and str::to_lowercase on the strings the requests carry
Lower(str) ==
    CASE str = "ST1" -> "st1"
      [] str = "BREATHE" -> "breathe"
      [] str = "Breathe" -> "breathe"
      [] str = "CSV" -> "csv"
      [] str = "X:JSON" -> "x:json"
      [] OTHER -> str

\* resolve_station: the name lookup, case-insensitive
ResolveStation(id_or_name) ==
    LET found == {st \in Stations : Lower(st) = Lower(id_or_name)}
    IN IF found = {} THEN None ELSE Some(CHOOSE st \in found : TRUE)

\* an Accept header: the media types its value lists, and whether the value
\* is visible ASCII throughout
Accept(media) == Some([media |-> media, visible_ascii |-> TRUE])
AcceptOpaque(media) == Some([media |-> media, visible_ascii |-> FALSE])

\* HeaderValue::to_str: Err unless every byte is visible ASCII
ToStr(value) == IF value.visible_ascii THEN Some(value.media) ELSE None

\* a determine_format that looks for text/csv before application/x-ndjson
DetermineFormatCsvFirst(query_format, accept) ==
    LET accept_str == IF IsSome(accept) THEN ToStr(Unwrap(accept)) ELSE None
    IN IF query_format # "json" THEN Lower(query_format)
       ELSE IF IsSome(accept_str) /\ "text/csv" \in Unwrap(accept_str) THEN "csv"
       ELSE IF IsSome(accept_str) /\ "application/x-ndjson" \in Unwrap(accept_str) THEN "ndjson"
       ELSE "json"

\* determine_format
DetermineFormat(query_format, accept) ==
    LET accept_str == IF IsSome(accept) THEN ToStr(Unwrap(accept)) ELSE None
    IN IF query_format # "json" THEN Lower(query_format)
       ELSE IF IsSome(accept_str) /\ "application/x-ndjson" \in Unwrap(accept_str) THEN "ndjson"
       ELSE IF IsSome(accept_str) /\ "text/csv" \in Unwrap(accept_str) THEN "csv"
       ELSE "json"

IsBulk(format) == format = "csv" \/ format = "ndjson"

SensorType(s) == IF s = "s1" THEN "temp" ELSE "level"

\* types.split(',').map(|s| s.trim().to_string()).collect()
TypeList(types) ==
    CASE types = "temp, level" -> <<"temp", "level">>
      [] OTHER -> <<types>>

\* the filter on sensor_type, if ?sensor_types= was given
TypeSelected(s, sensor_types) ==
    IsSome(sensor_types) => InSeq(SensorType(s), TypeList(Unwrap(sensor_types)))

\* the active sensors of a station that the filter keeps, ORDER BY name
SensorsList(station, active, sensor_types) ==
    SelectSeq(SensorOrder, LAMBDA x : /\ x \in StationSensors(station) \cap active
                                      /\ TypeSelected(x, sensor_types))

\* the orders in which a query without ORDER BY can return the same sensors
SensorsAnyOrder(station, active, sensor_types) ==
    LET list == SensorsList(station, active, sensor_types)
    IN IF Len(list) < 2 THEN {list} ELSE {list, <<list[2], list[1]>>}

\* query.sensor_types.as_deref().unwrap_or("")
UnwrapOr(o, default) == IF IsSome(o) THEN Unwrap(o) ELSE default

\* DateTime::to_rfc3339, and `.map(|t| t.to_rfc3339()).unwrap_or_default()`
Rfc3339(t) == ToString(t)
Rfc3339OrDefault(o) == IF IsSome(o) THEN Rfc3339(Unwrap(o)) ELSE ""

RECURSIVE cache_key(_, _)
cache_key(prefix, components) ==
    IF components = <<>> THEN prefix
    ELSE cache_key(prefix \o ":" \o Head(components), Tail(components))

(***************************************************************************)
(* services/cache.rs over the moka cache.  An entry is CachedResponse plus *)
(* the time of its insertion (time_to_live) and, as history, the rows of   *)
(* readings at that time.                                                  *)
(***************************************************************************)
\* response_cache.get(key): an entry older than the time to live is gone
CacheGet(cache, key, clock) ==
    IF key \in DOMAIN cache /\ clock - cache[key].inserted_at < CacheTtlSeconds
    THEN Some(cache[key]) ELSE None

Invalidate(cache, key) == [k \in DOMAIN cache \ {key} |-> cache[k]]

\* SELECT MAX(time) FROM readings WHERE sensor_id IN (...)
GetLatestTime(table, sensor_ids) ==
    LET times == {r.time : r \in {x \in table : InSeq(x.sensor_id, sensor_ids)}}
    IN IF sensor_ids = <<>> \/ times = {} THEN None
       ELSE Some(CHOOSE t \in times : \A u \in times : u <= t)

\* a get_cached that runs the freshness check whatever query_end is
GetCachedAlwaysChecks(cache, key, sensor_ids, query_end, clock, table, db_ok) ==
    LET cached == CacheGet(cache, key, clock)
        latest == IF db_ok THEN GetLatestTime(table, sensor_ids) ELSE None
    IN IF cached = None
       THEN [data |-> None, cache |-> cache, consulted |-> FALSE]
       ELSE IF IsSome(latest) /\ IsSome(Unwrap(cached).max_time)
                 /\ Unwrap(latest) > Unwrap(Unwrap(cached).max_time)
       THEN [data |-> None, cache |-> Invalidate(cache, key), consulted |-> TRUE]
       ELSE [data |-> Some(Unwrap(cached).data), cache |-> cache,
             consulted |-> sensor_ids # <<>>]

\* get_cached: the data on a hit, the cache as the call leaves it, and whether
\* the call queried the store; db_ok is whether that query succeeded
GetCached(cache, key, sensor_ids, query_end, clock, table, db_ok) ==
    LET cached == CacheGet(cache, key, clock)
        check == query_end = None
        latest == IF check /\ db_ok THEN GetLatestTime(table, sensor_ids) ELSE None
    IN IF cached = None
       THEN [data |-> None, cache |-> cache, consulted |-> FALSE]
       ELSE IF check /\ IsSome(latest) /\ IsSome(Unwrap(cached).max_time)
                 /\ Unwrap(latest) > Unwrap(Unwrap(cached).max_time)
       THEN [data |-> None, cache |-> Invalidate(cache, key), consulted |-> TRUE]
       ELSE [data |-> Some(Unwrap(cached).data), cache |-> cache,
             consulted |-> check /\ sensor_ids # <<>>]

\* store_cached
StoreCached(cache, key, data, max_time, clock, table) ==
    Upsert(cache, key, [data |-> data, max_time |-> max_time,
                        inserted_at |-> clock, written_over |-> table])

\* json_response
JsonResponse(data, cache_hit) ==
    [status |-> 200, content_type |-> "application/json",
     x_cache |-> Some(IF cache_hit THEN "HIT" ELSE "MISS"), body |-> Some(data)]

\* AppError::into_response, and the bodies built without json_response
ErrorResponse(status, message) ==
    [status |-> status, content_type |-> "application/json",
     x_cache |-> None, body |-> Some([error |-> message])]
PlainResponse(content_type, data) ==
    [status |-> 200, content_type |-> content_type, x_cache |-> None, body |-> Some(data)]

(***************************************************************************)
(* The queries of the two handlers and the reshaping of their rows.        *)
(***************************************************************************)
RECURSIVE SortedTimes(_)
SortedTimes(S) ==
    IF S = {} THEN <<>>
    ELSE LET m == CHOOSE t \in S : \A u \in S : t <= u
         IN <<m>> \o SortedTimes(S \ {m})

Last(seq) == IF seq = <<>> THEN None ELSE Some(seq[Len(seq)])

\* SELECT sensor_id, time, value FROM readings WHERE sensor_id IN (...) AND ...
SelectReadings(table, sensor_ids, start, end) ==
    {r \in table : /\ InSeq(r.sensor_id, sensor_ids)
                   /\ (IsSome(start) => r.time >= Unwrap(start))
                   /\ (IsSome(end) => r.time <= Unwrap(end))}

\* SELECT ... FROM readings_hourly WHERE sensor_id IN (...) AND bucket >= $1 AND bucket <= $2
SelectAggregates(view, sensor_ids, start, end) ==
    {v \in view : InSeq(v.sensor_id, sensor_ids) /\ v.bucket >= start /\ v.bucket <= end}

\* a reshaping that leaves out the sensors that have no row in the result
ReadingsResponseRowsOnly(rows, sensors_list) ==
    LET times == SortedTimes({r.time : r \in rows})
        with_rows == SelectSeq(sensors_list, LAMBDA x : \E r \in rows : r.sensor_id = x)
        ValueAt(sensor_id, t) ==
            LET m == {r \in rows : r.sensor_id = sensor_id /\ r.time = t}
            IN IF m = {} THEN None ELSE Some((CHOOSE r \in m : TRUE).value)
    IN [start |-> IF times = <<>> THEN None ELSE Some(times[1]),
        end |-> Last(times),
        times |-> times,
        sensors |-> [i \in 1..Len(with_rows) |->
                        [id |-> with_rows[i],
                         values |-> [j \in 1..Len(times) |->
                                        ValueAt(with_rows[i], times[j])]]]]

\* ReadingsResponse as get_station_readings builds it from the rows
ReadingsResponse(rows, sensors_list) ==
    LET times == SortedTimes({r.time : r \in rows})
        ValueAt(sensor_id, t) ==
            LET m == {r \in rows : r.sensor_id = sensor_id /\ r.time = t}
            IN IF m = {} THEN None ELSE Some((CHOOSE r \in m : TRUE).value)
    IN [start |-> IF times = <<>> THEN None ELSE Some(times[1]),
        end |-> Last(times),
        times |-> times,
        sensors |-> [i \in 1..Len(sensors_list) |->
                        [id |-> sensors_list[i],
                         values |-> [j \in 1..Len(times) |->
                                        ValueAt(sensors_list[i], times[j])]]]]

\* the body of the early return for a station without matching sensors
EmptyReadingsResponse == [start |-> None, end |-> None, times |-> <<>>, sensors |-> <<>>]

\* AggregatesResponse as get_station_aggregates builds it from the rows
AggregatesResponse(rows, sensors_list, resolution, start, end) ==
    LET times == SortedTimes({v.bucket : v \in rows})
        At(sensor_id, t) == {v \in rows : v.sensor_id = sensor_id /\ v.bucket = t}
        Agg(sensor_id, t) == CHOOSE v \in At(sensor_id, t) : TRUE
        Has(sensor_id, t) == At(sensor_id, t) # {}
    IN [resolution |-> resolution,
        start |-> start,
        end |-> end,
        times |-> times,
        sensors |-> [i \in 1..Len(sensors_list) |->
            LET id == sensors_list[i]
            IN [id |-> id,
                avg |-> [j \in 1..Len(times) |->
                    IF Has(id, times[j]) THEN Some(Agg(id, times[j]).avg_value) ELSE None],
                min |-> [j \in 1..Len(times) |->
                    IF Has(id, times[j]) THEN Some(Agg(id, times[j]).min_value) ELSE None],
                max |-> [j \in 1..Len(times) |->
                    IF Has(id, times[j]) THEN Some(Agg(id, times[j]).max_value) ELSE None],
                count |-> [j \in 1..Len(times) |->
                    IF Has(id, times[j]) THEN Agg(id, times[j]).count ELSE 0]]]]

EmptyAggregatesResponse(resolution, start, end) ==
    [resolution |-> resolution, start |-> start, end |-> end,
     times |-> <<>>, sensors |-> <<>>]

ViewName(resolution) ==
    IF resolution \in {"hourly", "daily", "weekly", "monthly"}
    THEN Some("readings_" \o resolution) ELSE None

(***************************************************************************)
(* The requests the clients send.                                          *)
(***************************************************************************)
QueryTypes(endpoint, station, resolution, start, end, sensor_types, format, accept) ==
    [endpoint |-> endpoint, station |-> station, resolution |-> resolution,
     start |-> start, end |-> end, sensor_types |-> sensor_types,
     format |-> format, accept |-> accept]

\* a request without ?sensor_types=
Query(endpoint, station, resolution, start, end, format, accept) ==
    QueryTypes(endpoint, station, resolution, start, end, None, format, accept)

RequestPool ==
    { Query("readings", "st1", "", None, None, "json", None),
      Query("readings", "ST1", "", Some(WindowStart), Some(WindowEnd), "json", None),
      Query("readings", "st0", "", None, None, "json", None),
      Query("readings", "st1", "", None, None, "CSV", None),
      Query("readings", "st1", "", Some(WindowEnd), Some(WindowStart), "json", None),
      Query("readings", "nowhere", "", None, None, "json", None),
      Query("aggregates", "st1", "hourly", Some(WindowStart), Some(WindowEnd), "json", None),
      Query("aggregates", "st1", "hourly", Some(WindowStart), Some(WindowEnd), "json",
            Accept({"text/html", "text/csv"})),
      Query("aggregates", "st1", "hourly", Some(WindowEnd - MaxTimeRange - 1),
            Some(WindowEnd), "json", None) }

\* a request as it arrives; the fields from `components` on are history
NewRequest(q, clock, n, done_before) ==
    [q |-> q, pc |-> "start", format |-> "", sensors_list |-> <<>>, key |-> "",
     query_end |-> None, permit |-> FALSE, rows |-> {},
     response |-> None, queries |-> 0,
     writer |-> "none", unsent |-> 0,
     components |-> <<>>, looked |-> FALSE, stored |-> FALSE, acquired |-> FALSE,
     entry |-> None, since |-> {}, consulted |-> FALSE, invalidated |-> FALSE,
     arrived_at |-> clock, ingests_at_arrival |-> n, done_before |-> done_before,
     done_at |-> 0, ingests_at_done |-> 0]

\* the handler returns: its response goes out and its permit is dropped
Responded(req, response, clock, n) ==
    [req EXCEPT !.pc = "done", !.response = Some(response), !.permit = FALSE,
                !.rows = {}, !.done_at = clock, !.ingests_at_done = n]

(***************************************************************************)
(* get_station_readings and get_station_aggregates.  A handler runs in     *)
(* three steps: from its arrival to the point where it awaits the query    *)
(* (validation, cache lookup, bulk admission, the early return for a       *)
(* station without sensors), the query, and the reshaping with the store   *)
(* into the cache and the response.                                        *)
(***************************************************************************)
\* what the lookup of a JSON request found, and the rows stored since
Looked(req, cache, key, sensor_ids, clock, table, got) ==
    LET entry == CacheGet(cache, key, clock)
    IN [req EXCEPT
          !.looked = TRUE,
          !.entry = entry,
          !.since = IF entry = None THEN {}
                    ELSE {r \in table \ Unwrap(entry).written_over :
                             InSeq(r.sensor_id, sensor_ids)},
          !.consulted = got.consulted,
          !.queries = req.queries + (IF got.consulted THEN 1 ELSE 0),
          !.invalidated = entry # None /\ key \notin DOMAIN got.cache]

NoLookup(cache) == [data |-> None, cache |-> cache, consulted |-> FALSE]

\* the first step of either handler once the request is validated
Admission(req0, prefix, components, sensors_list, query_end, empty_body, cache, permits, table, clock, db_ok, n) ==
    LET format == req0.format
        key == cache_key(prefix, components)
        got == IF format = "json"
               THEN GetCached(cache, key, sensors_list, query_end, clock, table, db_ok)
               ELSE NoLookup(cache)
        req1 == [req0 EXCEPT !.sensors_list = sensors_list, !.key = key,
                             !.components = components, !.query_end = query_end]
        req == IF format = "json"
               THEN Looked(req1, cache, key, sensors_list, clock, table, got)
               ELSE req1
    IN IF IsSome(got.data)
       THEN [req |-> Responded(req, JsonResponse(Unwrap(got.data), TRUE), clock, n),
             cache |-> got.cache, permits |-> permits]
       ELSE IF IsBulk(format) /\ permits = 0
       THEN [req |-> Responded(req, ErrorResponse(503,
                        "Too many concurrent bulk requests. Please try again later."),
                        clock, n),
             cache |-> got.cache, permits |-> permits]
       ELSE IF sensors_list = <<>>
       THEN [req |-> Responded([req EXCEPT !.acquired = IsBulk(format)],
                               PlainResponse("application/json", empty_body), clock, n),
             cache |-> got.cache, permits |-> permits]
       ELSE [req |-> [req EXCEPT !.pc = "query", !.permit = IsBulk(format),
                                 !.acquired = IsBulk(format)],
             cache |-> got.cache,
             permits |-> IF IsBulk(format) THEN permits - 1 ELSE permits]

\* the statements the handler has sent to the database so far: resolve_station
\* is the first, the query for the station's sensors the second
Queried(req, n) == [req EXCEPT !.queries = req.queries + n]

Rejected(req0, status, message, cache, permits, clock, n) ==
    [req |-> Responded(req0, ErrorResponse(status, message), clock, n),
     cache |-> cache, permits |-> permits]

ReadingsArrival(req0, cache, permits, table, active, clock, db_ok, n) ==
    LET q == req0.q
        station == ResolveStation(q.station)
        format == DetermineFormat(q.format, q.accept)
    IN IF station = None
       THEN Rejected(Queried(req0, 1), 404, "Station not found", cache, permits, clock, n)
       ELSE IF IsSome(q.start) /\ IsSome(q.end) /\ Unwrap(q.end) <= Unwrap(q.start)
       THEN Rejected(Queried(req0, 1), 400, "end time must be after start time",
                     cache, permits, clock, n)
       ELSE Admission([Queried(req0, 2) EXCEPT !.format = format], "readings",
                      <<Unwrap(station), Rfc3339OrDefault(q.start),
                        Rfc3339OrDefault(q.end), UnwrapOr(q.sensor_types, ""), format>>,
                      SensorsList(Unwrap(station), active, q.sensor_types), q.end,
                      EmptyReadingsResponse, cache, permits, table, clock, db_ok, n)

\* the arrival with a range check that refuses a span of exactly the maximum
AggregatesArrivalRangeExclusive(req0, sensors_list, cache, permits, table, clock, db_ok, n) ==
    LET q == req0.q
        station == ResolveStation(q.station)
        format == DetermineFormat(q.format, q.accept)
        start == Unwrap(q.start)
        end == Unwrap(q.end)
    IN IF station = None
       THEN Rejected(Queried(req0, 1), 404, "Station not found", cache, permits, clock, n)
       ELSE IF ViewName(q.resolution) = None
       THEN Rejected(Queried(req0, 1), 400, "Invalid resolution", cache, permits, clock, n)
       ELSE IF end <= start
       THEN Rejected(Queried(req0, 1), 400, "end time must be after start time",
                     cache, permits, clock, n)
       ELSE IF end - start >= MaxTimeRange
       THEN Rejected(Queried(req0, 1), 400, "time range exceeds maximum",
                     cache, permits, clock, n)
       ELSE Admission([Queried(req0, 2) EXCEPT !.format = format], "aggregates",
                      <<Unwrap(station), q.resolution, Rfc3339(start), Rfc3339(end),
                        UnwrapOr(q.sensor_types, ""), format>>,
                      sensors_list, Some(end),
                      EmptyAggregatesResponse(q.resolution, start, end),
                      cache, permits, table, clock, db_ok, n)

\* get_station_aggregates up to the await of its query
AggregatesArrival(req0, sensors_list, cache, permits, table, clock, db_ok, n) ==
    LET q == req0.q
        station == ResolveStation(q.station)
        format == DetermineFormat(q.format, q.accept)
        start == Unwrap(q.start)
        end == Unwrap(q.end)
    IN IF station = None
       THEN Rejected(Queried(req0, 1), 404, "Station not found", cache, permits, clock, n)
       ELSE IF ViewName(q.resolution) = None
       THEN Rejected(Queried(req0, 1), 400, "Invalid resolution", cache, permits, clock, n)
       ELSE IF end <= start
       THEN Rejected(Queried(req0, 1), 400, "end time must be after start time",
                     cache, permits, clock, n)
       ELSE IF end - start > MaxTimeRange
       THEN Rejected(Queried(req0, 1), 400, "time range exceeds maximum",
                     cache, permits, clock, n)
       ELSE Admission([Queried(req0, 2) EXCEPT !.format = format], "aggregates",
                      <<Unwrap(station), q.resolution, Rfc3339(start), Rfc3339(end),
                        UnwrapOr(q.sensor_types, ""), format>>,
                      sensors_list, Some(end),
                      EmptyAggregatesResponse(q.resolution, start, end),
                      cache, permits, table, clock, db_ok, n)

Done == {i \in 1..Len(reqs) : reqs[i].pc = "done"}

\* a fault is a failed statement: only a step that ran one can have one
get_station_readings(q) ==
    /\ q.endpoint = "readings"
    /\ Len(reqs) < MaxRequests
    /\ \E db_ok \in BOOLEAN :
         LET out == ReadingsArrival(NewRequest(q, now, ingests, Done), response_cache,
                                    readings_permits, readings, sensors, now, db_ok, ingests)
         IN /\ db_ok \/ out.req.consulted
            /\ DbFaults(Fault(db_ok))
            /\ reqs' = Append(reqs, out.req)
            /\ response_cache' = out.cache
            /\ readings_permits' = out.permits
    /\ UNCHANGED <<storeVars, upstream, now, ticks, fetch_faults, schedVars,
                   aggregates_permits, ingests, alarmVars, shutdown, discVars, eventVars>>

get_station_aggregates(q) ==
    /\ q.endpoint = "aggregates"
    /\ Len(reqs) < MaxRequests
    /\ \E sensors_list \in
            (IF ResolveStation(q.station) = None THEN {<<>>}
             ELSE SensorsAnyOrder(Unwrap(ResolveStation(q.station)), sensors,
                                  q.sensor_types)) :
         LET out == AggregatesArrival(NewRequest(q, now, ingests, Done), sensors_list,
                                      response_cache, aggregates_permits, readings, now,
                                      TRUE, ingests)
         IN /\ reqs' = Append(reqs, out.req)
            /\ response_cache' = out.cache
            /\ aggregates_permits' = out.permits
    /\ UNCHANGED <<storeVars, envVars, schedVars, readings_permits, ingests, alarmVars, shutdown, discVars, eventVars>>

\* build_csv_response / build_ndjson_response: tokio::spawn of the writer task
\* that sends the header (CSV) and one line per time into the channel
Spawned(req, times) ==
    [req EXCEPT !.writer = "running",
                !.unsent = (IF req.format = "csv" THEN 1 ELSE 0) + Len(times)]

\* a handler that returns with its permit never given back
ReleaseLeaks(permits, req) == permits

\* `_permit` dropped where the handler returns
Release(permits, req) == IF req.permit THEN permits + 1 ELSE permits

\* get_station_readings: the query (`.await?`: an Err ends the request)
ReadingsQuery(i) ==
    /\ i \in 1..Len(reqs)
    /\ reqs[i].q.endpoint = "readings"
    /\ reqs[i].pc = "query"
    /\ \E db_ok \in BOOLEAN :
         /\ DbFaults(Fault(db_ok))
         /\ IF db_ok
            THEN /\ reqs' = [reqs EXCEPT ![i] =
                        [@ EXCEPT !.pc = "respond", !.queries = reqs[i].queries + 1,
                                  !.rows = SelectReadings(readings, reqs[i].sensors_list,
                                               reqs[i].q.start, reqs[i].q.end)]]
                 /\ UNCHANGED readings_permits
            ELSE /\ reqs' = [reqs EXCEPT ![i] =
                        Responded(Queried(@, 1), ErrorResponse(500, "Database error"),
                                  now, ingests)]
                 /\ readings_permits' = Release(readings_permits, reqs[i])
    /\ UNCHANGED <<storeVars, upstream, now, ticks, fetch_faults, schedVars,
                   response_cache, aggregates_permits, ingests, alarmVars, shutdown, discVars, eventVars>>

\* get_station_readings: reshape, then the response in the chosen format
ReadingsRespond(i) ==
    /\ i \in 1..Len(reqs)
    /\ reqs[i].q.endpoint = "readings"
    /\ reqs[i].pc = "respond"
    /\ LET req == reqs[i]
           response == ReadingsResponse(req.rows, req.sensors_list)
       IN IF req.format = "csv" \/ req.format = "ndjson"
          THEN /\ reqs' = [reqs EXCEPT ![i] =
                      Spawned(Responded(@, PlainResponse(IF req.format = "csv"
                                                         THEN "text/csv"
                                                         ELSE "application/x-ndjson",
                                                         response),
                                        now, ingests), response.times)]
               /\ UNCHANGED response_cache
          ELSE /\ response_cache' = StoreCached(response_cache, req.key, response,
                                                response.end, now, readings)
               /\ reqs' = [reqs EXCEPT ![i] =
                      Responded([@ EXCEPT !.stored = TRUE],
                                JsonResponse(response, FALSE), now, ingests)]
    /\ readings_permits' = Release(readings_permits, reqs[i])
    /\ UNCHANGED <<storeVars, envVars, schedVars, aggregates_permits, ingests, alarmVars, shutdown, discVars, eventVars>>

\* get_station_aggregates: the query of the continuous aggregate view
AggregatesQuery(i) ==
    /\ i \in 1..Len(reqs)
    /\ reqs[i].q.endpoint = "aggregates"
    /\ reqs[i].pc = "query"
    /\ \E db_ok \in BOOLEAN :
         /\ DbFaults(Fault(db_ok))
         /\ IF db_ok
            THEN /\ reqs' = [reqs EXCEPT ![i] =
                        [@ EXCEPT !.pc = "respond", !.queries = reqs[i].queries + 1,
                                  !.rows = SelectAggregates(readings_hourly,
                                               reqs[i].sensors_list,
                                               Unwrap(reqs[i].q.start),
                                               Unwrap(reqs[i].q.end))]]
                 /\ UNCHANGED aggregates_permits
            ELSE /\ reqs' = [reqs EXCEPT ![i] =
                        Responded(Queried(@, 1), ErrorResponse(500, "Database error"),
                                  now, ingests)]
                 /\ aggregates_permits' = Release(aggregates_permits, reqs[i])
    /\ UNCHANGED <<storeVars, upstream, now, ticks, fetch_faults, schedVars,
                   response_cache, readings_permits, ingests, alarmVars, shutdown, discVars, eventVars>>

\* get_station_aggregates: reshape, then the response in the chosen format
AggregatesRespond(i) ==
    /\ i \in 1..Len(reqs)
    /\ reqs[i].q.endpoint = "aggregates"
    /\ reqs[i].pc = "respond"
    /\ LET req == reqs[i]
           response == AggregatesResponse(req.rows, req.sensors_list, req.q.resolution,
                                          Unwrap(req.q.start), Unwrap(req.q.end))
       IN IF req.format = "csv" \/ req.format = "ndjson"
          THEN /\ reqs' = [reqs EXCEPT ![i] =
                      Spawned(Responded(@, PlainResponse(IF req.format = "csv"
                                                         THEN "text/csv"
                                                         ELSE "application/x-ndjson",
                                                         response),
                                        now, ingests), response.times)]
               /\ UNCHANGED response_cache
          ELSE /\ response_cache' = StoreCached(response_cache, req.key, response,
                                                Last(response.times), now, readings)
               /\ reqs' = [reqs EXCEPT ![i] =
                      Responded([@ EXCEPT !.stored = TRUE],
                                JsonResponse(response, FALSE), now, ingests)]
    /\ aggregates_permits' = Release(aggregates_permits, reqs[i])
    /\ UNCHANGED <<storeVars, envVars, schedVars, readings_permits, ingests, alarmVars, shutdown, discVars, eventVars>>

\* one turn of the writer task: it sends the next line into the channel and
\* returns after the last one.  `rx_open` is whether the client still reads
\* the body: a row whose send fails breaks the loop; a header whose send fails
\* is ignored (`let _ =`) and the send of the first row then fails as well
WriterSend(i) ==
    /\ i \in 1..Len(reqs)
    /\ reqs[i].writer = "running"
    /\ \E rx_open \in BOOLEAN :
         reqs' = [reqs EXCEPT ![i] =
                    IF rx_open /\ reqs[i].unsent > 1
                    THEN [@ EXCEPT !.unsent = reqs[i].unsent - 1]
                    ELSE [@ EXCEPT !.unsent = 0, !.writer = "returned"]]
    /\ UNCHANGED <<storeVars, envVars, schedVars, response_cache, readings_permits,
                   aggregates_permits, ingests, alarmVars, shutdown, discVars, eventVars>>

(***************************************************************************)
(* What the query surface sees of the synchroniser: a chunk inserted into  *)
(* readings, and the refresh of the hourly rollup after a tick.            *)
(***************************************************************************)
IngestPool(s) == PoolOf(VaisalaLocationId(s)) \cap {RawA, RawC, RawN}

IngestReading(s, p) ==
    /\ ingests < MaxIngests
    /\ s \in sensors
    /\ p \in IngestPool(s)
    /\ readings' = InsertMany(readings, BuildModels(s, <<DataPoint(p)>>, now))
    /\ readings' # readings
    /\ ingests' = ingests + 1
    /\ UNCHANGED <<sensors, sync_state, readings_hourly, envVars, schedVars,
                   response_cache, readings_permits, aggregates_permits, reqs, alarmVars, shutdown, discVars, eventVars>>

IngestRefresh ==
    /\ readings_hourly' = RefreshContinuousAggregate(readings_hourly, readings,
                                                     now - RefreshWindow, now)
    /\ readings_hourly' # readings_hourly
    /\ UNCHANGED <<sensors, sync_state, readings, envVars, schedVars, apiVars, alarmVars, shutdown, discVars, eventVars>>

AdvanceClock ==
    /\ now < NowStart + MaxClockSteps * ClockStep
    /\ now' = now + ClockStep
    /\ UNCHANGED <<storeVars, upstream, ticks, db_faults, fetch_faults, schedVars, apiVars, alarmVars, shutdown, discVars, eventVars>>

\* the service between two ticks, discovery done, nothing stored yet
InitApi ==
    /\ sensors = Sensors
    /\ sync_state = [s \in Sensors |-> PendingRow]
    /\ readings = {}
    /\ readings_hourly = {}
    /\ InitEnv
    /\ pc = "wait"
    /\ force_full_sync = FALSE
    /\ retries = 0
    /\ attempts = 0
    /\ last_error = None
    /\ sync_succeeded = FALSE
    /\ location_map = EmptyTable
    /\ date_from = None
    /\ fetched = <<>>
    /\ pending = <<>>
    /\ cur = NoCur
    /\ prev_pass = None
    /\ refresh_calls = <<>>
    /\ InitApiIdle
    /\ InitAlarmsIdle /\ InitDiscoveryIdle /\ InitEventsIdle

NextApi ==
    \/ \E q \in RequestPool : get_station_readings(q)
    \/ \E q \in RequestPool : get_station_aggregates(q)
    \/ \E i \in 1..MaxRequests : ReadingsQuery(i)
    \/ \E i \in 1..MaxRequests : ReadingsRespond(i)
    \/ \E i \in 1..MaxRequests : AggregatesQuery(i)
    \/ \E i \in 1..MaxRequests : AggregatesRespond(i)
    \/ \E i \in 1..MaxRequests : WriterSend(i)
    \/ \E s \in Sensors : \E p \in PointPool : IngestReading(s, p)
    \/ IngestRefresh
    \/ AdvanceClock

SpecApi == InitApi /\ [][NextApi]_vars

(***************************************************************************)
(* The same handlers under requests that differ in their window, in their  *)
(* format parameter, in their Accept header and in their sensor_types,     *)
(* over a store that holds no reading.                                     *)
(***************************************************************************)
FormatPool ==
    { Query("readings", "st1", "", None, None, "json", None),
      Query("readings", "st1", "", None, None, "xml", None),
      Query("readings", "st1", "", None, None, "CSV", None),
      Query("readings", "st1", "", None, None, "json",
            Accept({"text/csv", "application/x-ndjson"})),
      Query("readings", "st1", "", None, None, "json", AcceptOpaque({"text/csv"})),
      Query("readings", "st1", "", Some(WindowEnd), Some(WindowStart), "csv", None),
      Query("readings", "st0", "", None, None, "csv", None),
      QueryTypes("readings", "st1", "", None, None, Some("temp:x"), "json", None),
      QueryTypes("readings", "st1", "", None, None, Some("temp"), "X:JSON", None),
      Query("aggregates", "st1", "hourly", Some(WindowEnd), Some(WindowEnd), "csv", None),
      Query("aggregates", "st1", "hourly", Some(WindowEnd - MaxTimeRange - 1),
            Some(WindowEnd), "json", Accept({"text/csv"})),
      Query("aggregates", "st1", "hourly", Some(WindowEnd - MaxTimeRange),
            Some(WindowEnd), "csv", None) }

NextFormats ==
    \/ \E q \in FormatPool : get_station_readings(q)
    \/ \E q \in FormatPool : get_station_aggregates(q)
    \/ \E i \in 1..MaxRequests : ReadingsQuery(i)
    \/ \E i \in 1..MaxRequests : ReadingsRespond(i)
    \/ \E i \in 1..MaxRequests : AggregatesQuery(i)
    \/ \E i \in 1..MaxRequests : AggregatesRespond(i)
    \/ \E i \in 1..MaxRequests : WriterSend(i)

SpecFormats == InitApi /\ [][NextFormats]_vars

(***************************************************************************)
(* Properties of the query surface.                                        *)
(***************************************************************************)
JsonLookups == {i \in 1..Len(reqs) : reqs[i].format = "json" /\ IsSome(reqs[i].entry)}

PayloadEnd(entry) == Last(entry.data.times)

\* a reading of an involved sensor, stored since the entry was written, that
\* is newer than every reading of the cached payload
NewerStored(req) ==
    \E r \in req.since :
        PayloadEnd(Unwrap(req.entry)) = None \/ r.time > Unwrap(PayloadEnd(Unwrap(req.entry)))

IsHit(req) == IsSome(req.response) /\ Unwrap(req.response).x_cache = Some("HIT")

\* C7: an unbounded lookup that finds an entry while a reading newer than the
\* cached payload has been stored since the entry was written is a miss and
\* removes the entry.
C7_UnboundedLookupMissesStaleEntry ==
    \A i \in JsonLookups :
        (reqs[i].query_end = None /\ NewerStored(reqs[i])) =>
            (~IsHit(reqs[i]) /\ reqs[i].invalidated)

\* C8: a bounded lookup that finds an unexpired entry is a hit that returns the
\* entry's bytes and does not query the store, whatever was ingested since.
C8_BoundedLookupAlwaysHits ==
    \A i \in JsonLookups :
        IsSome(reqs[i].query_end) =>
            /\ IsHit(reqs[i])
            /\ Unwrap(reqs[i].response).body = Some(Unwrap(reqs[i].entry).data)
            /\ ~reqs[i].consulted
            /\ ~reqs[i].invalidated

\* C8 witness: a bounded lookup served as a hit although readings of its
\* sensors were stored after the entry was written.
C8_Witness ==
    \E i \in JsonLookups :
        IsSome(reqs[i].query_end) /\ reqs[i].since # {} /\ IsHit(reqs[i])

\* C9: of two equal JSON readings queries, the second sent after the first was
\* answered and within the TTL of that answer, with nothing cached before and
\* no reading ingested meanwhile, the first is answered MISS and the second
\* HIT with the same body.
C9_SecondQueryIsIdenticalHit ==
    \A i \in 1..Len(reqs) : \A j \in 1..Len(reqs) :
        LET a == reqs[i]
            b == reqs[j]
        IN (/\ a.q.endpoint = "readings" /\ a.q = b.q /\ a.format = "json"
            /\ a.pc = "done" /\ b.pc = "done" /\ i \in b.done_before
            /\ Unwrap(a.response).status = 200
            /\ a.entry = None
            /\ a.ingests_at_arrival = b.ingests_at_done
            /\ b.arrived_at - a.done_at < CacheTtlSeconds) =>
               /\ Unwrap(a.response).x_cache = Some("MISS")
               /\ Unwrap(b.response).x_cache = Some("HIT")
               /\ Unwrap(b.response).body = Unwrap(a.response).body

\* C10: the requests that hold a bulk permit, over both endpoints, are never
\* more than BULK_CONCURRENT_LIMIT.
C10_BulkCapIsProcessWide ==
    Cardinality({i \in 1..Len(reqs) : reqs[i].permit}) <= BULK_CONCURRENT_LIMIT

\* C11: a bulk request answered 503 because no permit was free has sent no
\* statement to the database before the rejection.
C11_RejectedBulkIssuedNoQuery ==
    \A i \in 1..Len(reqs) :
        (IsSome(reqs[i].response) /\ Unwrap(reqs[i].response).status = 503) =>
            reqs[i].queries = 0

\* C12: as long as the writer task of a CSV/NDJSON response is streaming, the
\* request still holds its bulk permit.
C12_PermitHeldWhileWriterStreams ==
    \A i \in 1..Len(reqs) : reqs[i].writer = "running" => reqs[i].permit

\* a row stored since the entry was written that the query of the request selects
ChangesAnswer(req) ==
    \E r \in req.since :
        /\ IsSome(req.q.start) => r.time >= Unwrap(req.q.start)
        /\ IsSome(req.q.end) => r.time <= Unwrap(req.q.end)

\* C20: a readings lookup that finds an entry written before the synchroniser
\* stored rows the query selects is not served from that entry.
C20_IngestInvalidatesDependentEntries ==
    \A i \in JsonLookups :
        (reqs[i].q.endpoint = "readings" /\ ChangesAnswer(reqs[i])) => ~IsHit(reqs[i])

\* the request passed the checks that come before the window validation
StationFound(req) == IsSome(ResolveStation(req.q.station))
ResolutionValid(req) == req.q.endpoint = "readings" \/ IsSome(ViewName(req.q.resolution))

BothBounds(req) == IsSome(req.q.start) /\ IsSome(req.q.end)
Span(req) == Unwrap(req.q.end) - Unwrap(req.q.start)

\* the window the validation refuses
BadWindow(req) ==
    /\ BothBounds(req)
    /\ \/ Span(req) <= 0
       \/ req.q.endpoint = "aggregates" /\ Span(req) > MaxTimeRange

BadRequest(req) == IsSome(req.response) /\ Unwrap(req.response).status = 400

\* C22: a request of a known station (and, for aggregates, a valid resolution)
\* whose window has end <= start, or for aggregates spans more than 90 days, is
\* answered 400 at its arrival without a cache lookup, a cache store or a bulk
\* permit; an aggregates request that spans exactly 90 days is not refused.
C22_WindowRejectedBeforeSideEffects ==
    \A i \in 1..Len(reqs) :
        LET req == reqs[i]
        IN (StationFound(req) /\ ResolutionValid(req)) =>
              /\ BadWindow(req) =>
                    /\ req.pc = "done"
                    /\ BadRequest(req)
                    /\ ~req.looked /\ ~req.stored /\ ~req.acquired /\ ~req.permit
              /\ (req.q.endpoint = "aggregates" /\ BothBounds(req)
                    /\ Span(req) = MaxTimeRange) => ~BadRequest(req)

\* C22 witness: an aggregates CSV request over exactly 90 days holds the bulk
\* permit, and a request with a refused window has been answered 400 meanwhile.
C22_Witness ==
    \E i \in 1..Len(reqs) : \E j \in 1..Len(reqs) :
        /\ reqs[i].q.endpoint = "aggregates"
        /\ Span(reqs[i]) = MaxTimeRange
        /\ reqs[i].permit
        /\ j > i
        /\ BadWindow(reqs[j])
        /\ IsBulk(DetermineFormat(reqs[j].q.format, reqs[j].q.accept))
        /\ BadRequest(reqs[j])
        /\ ~reqs[j].looked /\ ~reqs[j].acquired

\* the step in which the handler of request i reshapes its rows
ResponseBuilt(i) == reqs[i].pc = "respond" /\ reqs'[i].pc = "done"

BuiltBody(i) == Unwrap(Unwrap(reqs'[i].response).body)

\* the time a row of the result is filed under
TimeOf(req, row) == IF req.q.endpoint = "readings" THEN row.time ELSE row.bucket

\* the active sensors of the station that the request selects
Selected(req) ==
    {x \in StationSensors(Unwrap(ResolveStation(req.q.station))) \cap sensors :
        TypeSelected(x, req.q.sensor_types)}

RowAt(req, x, t) == {r \in req.rows : r.sensor_id = x /\ TimeOf(req, r) = t}

\* the arrays of one sensor of the body hold, at the index of time t, what
\* the row of that sensor and time holds, and null (count 0) without a row
CellsMatch(req, sd, j, t) ==
    LET at == RowAt(req, sd.id, t)
        row == CHOOSE r \in at : TRUE
    IN IF req.q.endpoint = "readings"
       THEN sd.values[j] = (IF at = {} THEN None ELSE Some(row.value))
       ELSE /\ sd.avg[j] = (IF at = {} THEN None ELSE Some(row.avg_value))
            /\ sd.min[j] = (IF at = {} THEN None ELSE Some(row.min_value))
            /\ sd.max[j] = (IF at = {} THEN None ELSE Some(row.max_value))
            /\ sd.count[j] = (IF at = {} THEN 0 ELSE row.count)

ArrayLengths(req, sd) ==
    IF req.q.endpoint = "readings" THEN {Len(sd.values)}
    ELSE {Len(sd.avg), Len(sd.min), Len(sd.max), Len(sd.count)}

\* C23: in the body a handler builds, times is strictly increasing and holds
\* exactly the times of the rows of the result; every selected sensor has
\* exactly one entry and there is no other entry; every array of an entry is
\* as long as times and holds the sensor's row at the index of its time and
\* null (count 0) elsewhere.
C23_ResponseIsAlignedGrid ==
    [][\A i \in 1..Len(reqs) : ResponseBuilt(i) =>
          LET req == reqs[i]
              body == BuiltBody(i)
              n == Len(body.times)
          IN /\ \A j \in 1..n : \A k \in 1..n : j < k => body.times[j] < body.times[k]
             /\ {body.times[j] : j \in 1..n} = {TimeOf(req, r) : r \in req.rows}
             /\ \A x \in Selected(req) :
                   Cardinality({k \in 1..Len(body.sensors) : body.sensors[k].id = x}) = 1
             /\ \A k \in 1..Len(body.sensors) :
                   /\ body.sensors[k].id \in Selected(req)
                   /\ ArrayLengths(req, body.sensors[k]) = {n}
                   /\ \A j \in 1..n : CellsMatch(req, body.sensors[k], j, body.times[j])]_vars

\* C23 witness: an answered readings request whose body has two times and the
\* two sensors of the station, one with a value at each time and one with
\* null at each time.
C23_Witness ==
    \E i \in 1..Len(reqs) :
        /\ reqs[i].pc = "done"
        /\ reqs[i].q.endpoint = "readings"
        /\ Unwrap(reqs[i].response).status = 200
        /\ LET body == Unwrap(Unwrap(reqs[i].response).body)
           IN /\ Len(body.times) = 2
              /\ Len(body.sensors) = 2
              /\ \E k \in 1..2 : \A j \in 1..2 : body.sensors[k].values[j] = None
              /\ \E k \in 1..2 : \A j \in 1..2 : body.sensors[k].values[j] # None

\* the requests for which the handler built a cache key
Keyed == {i \in 1..Len(reqs) : reqs[i].components # <<>>}

\* C24: two requests that differ in the endpoint or in a component of their
\* cache key (station, resolution, start, end, sensor_types, format; an absent
\* parameter is the empty component) have different cache keys.
C24_DistinctComponentsDistinctKeys ==
    \A i \in Keyed : \A j \in Keyed :
        (\/ reqs[i].q.endpoint # reqs[j].q.endpoint
         \/ reqs[i].components # reqs[j].components) => reqs[i].key # reqs[j].key

\* C25: a request whose determined format is not json makes no cache lookup
\* and stores no cache entry.
C25_OnlyJsonTouchesCache ==
    \A i \in 1..Len(reqs) :
        (reqs[i].format # "" /\ reqs[i].format # "json") =>
            (~reqs[i].looked /\ ~reqs[i].stored)

\* the requests whose format the handler has determined
Determined == {i \in 1..Len(reqs) : reqs[i].format # ""}

\* the Accept header of the request lists the media type
AcceptContains(q, media_type) == IsSome(q.accept) /\ media_type \in Unwrap(q.accept).media
AcceptReadable(q) == IsSome(q.accept) /\ Unwrap(q.accept).visible_ascii

\* C26 as stated: the format is the lower-cased ?format= value if that is not
\* json; otherwise ndjson if the Accept header contains application/x-ndjson;
\* otherwise csv if it contains text/csv; otherwise json.
C26_FormatPrecedence ==
    \A i \in Determined :
        LET q == reqs[i].q
        IN reqs[i].format =
              IF q.format # "json" THEN Lower(q.format)
              ELSE IF AcceptContains(q, "application/x-ndjson") THEN "ndjson"
              ELSE IF AcceptContains(q, "text/csv") THEN "csv"
              ELSE "json"

\* C26 amended: the same, where an Accept header counts only if its value is
\* visible ASCII throughout; any other Accept header is as good as absent.
C26_FormatPrecedenceReadableAccept ==
    \A i \in Determined :
        LET q == reqs[i].q
        IN reqs[i].format =
              IF q.format # "json" THEN Lower(q.format)
              ELSE IF AcceptReadable(q) /\ AcceptContains(q, "application/x-ndjson") THEN "ndjson"
              ELSE IF AcceptReadable(q) /\ AcceptContains(q, "text/csv") THEN "csv"
              ELSE "json"

\* C26 witness: a request whose Accept header lists both media types is served
\* as ndjson and a request with ?format=CSV as csv.
C26_Witness ==
    \E i \in Determined : \E j \in Determined :
        /\ reqs[i].q.format = "json"
        /\ AcceptContains(reqs[i].q, "application/x-ndjson")
        /\ AcceptContains(reqs[i].q, "text/csv")
        /\ reqs[i].format = "ndjson"
        /\ reqs[j].q.format = "CSV"
        /\ reqs[j].format = "csv"

(***************************************************************************)
(* The alarms synchroniser: run_alarms_sync (sync/scheduler.rs) and        *)
(* sync_alarms (sync/worker.rs).  The task is the only writer of table     *)
(* alarms and reads the list and the table once at its start, so a call    *)
(* of sync_alarms is one step.  A row keeps the columns the sync decides   *)
(* on: id, vaisala_alarm_id (unique), severity, when_on, when_off, status, *)
(* created_at, updated_at; of the columns an update copies from the list   *)
(* without looking at them (description, error_text, when_ack,             *)
(* duration_sec, ack_comments, ack_action_taken) it keeps description; of  *)
(* those only an insert writes it keeps when_condition, is_system and      *)
(* station_id.  The rows of alarm_locations are kept with their alarm, as  *)
(* the set `locations` of linked sensors.                                  *)
(***************************************************************************)
SyncAlarmsInterval == 600

\* ActiveAlarmAttributes as deserialised: `status` is false when the field
\* is missing (#[serde(default)]), when_off is None when null or missing
ActiveAlarm(id, severity, when_on, when_off, status) ==
    [id |-> id, severity |-> severity, when_on |-> when_on, when_off |-> when_off,
     status |-> status]

\* ... with description and the attributes that only the insert of a new
\* alarm copies
WithDetails(attrs, description, when_condition, is_system, location_ids) ==
    [id |-> attrs.id, severity |-> attrs.severity, when_on |-> attrs.when_on,
     when_off |-> attrs.when_off, status |-> attrs.status, description |-> description,
     when_condition |-> when_condition, is_system |-> is_system,
     location_ids |-> location_ids]

Alarm17 == WithDetails(ActiveAlarm(17, 2, NowStart - 100, None, TRUE), "High temperature", Some(NowStart - 110), FALSE, <<1001>>)
Alarm17Cleared == WithDetails(ActiveAlarm(17, 3, NowStart - 90, Some(NowStart + 30), FALSE), "High temperature (cleared)", None, TRUE, <<UnknownLocation, 1002>>)
Alarm18 == WithDetails(ActiveAlarm(18, 1, NowStart - 200, None, TRUE), "Low level", None, FALSE, <<1002>>)
Alarm18NoStatus == WithDetails(ActiveAlarm(18, 1, NowStart - 200, None, FALSE), "Low level", None, FALSE, <<>>)
AlarmPool == {Alarm17, Alarm17Cleared, Alarm18, Alarm18NoStatus}

\* response.data.iter().map(|r| r.attributes.id)
RECURSIVE ActiveIds(_)
ActiveIds(data) == IF data = <<>> THEN {} ELSE {Head(data).id} \cup ActiveIds(Tail(data))

\* the lookup with nothing loaded: every listed alarm takes the insert branch
ExistingAlarmNotLoaded(existing_alarms, vaisala_alarm_id) == None

\* existing_alarms.get(&attrs.id)
ExistingAlarm(existing_alarms, vaisala_alarm_id) ==
    IF \E r \in existing_alarms : r.vaisala_alarm_id = vaisala_alarm_id
    THEN Some(CHOOSE r \in existing_alarms : r.vaisala_alarm_id = vaisala_alarm_id)
    ELSE None

\* attrs.when_off.and_then(|ts| DateTime::from_timestamp(ts as i64, 0))
WhenOff(attrs) == IF IsSome(attrs.when_off) THEN FromTimestamp(Unwrap(attrs.when_off)) ELSE None

\* DateTime::from_timestamp(attrs.when_on as i64, 0).unwrap_or_else(Utc::now)
WhenOn(attrs, clock) ==
    IF IsSome(FromTimestamp(attrs.when_on)) THEN attrs.when_on ELSE clock

\* sensors::Entity::find().all(db): vaisala_location_id -> sensor id
SensorMap ==
    [l \in {VaisalaLocationId(x) : x \in sensors} |->
        CHOOSE x \in sensors : VaisalaLocationId(x) = l]

\* the station_id of a sensor row
StationOf(sensor_id) == CHOOSE st \in Stations : sensor_id \in StationSensors(st)

\* location_ids.iter().find_map(|loc_id| sensor_station_map.get(loc_id).copied())
RECURSIVE AlarmStation(_)
AlarmStation(location_ids) ==
    IF location_ids = <<>> THEN None
    ELSE IF Head(location_ids) \in DOMAIN SensorMap
    THEN Some(StationOf(SensorMap[Head(location_ids)]))
    ELSE AlarmStation(Tail(location_ids))

\* the rows of alarm_locations the insert branch adds for a new alarm (a
\* link whose insert fails is logged and left out; here every link is stored)
AlarmLinks(location_ids) ==
    {SensorMap[location_ids[i]] :
        i \in {j \in 1..Len(location_ids) : location_ids[j] \in DOMAIN SensorMap}}

\* attrs.when_condition.and_then(|ts| DateTime::from_timestamp(ts as i64, 0))
WhenCondition(attrs) ==
    IF IsSome(attrs.when_condition) THEN FromTimestamp(Unwrap(attrs.when_condition)) ELSE None

\* the update of an existing alarm that leaves when_off as it is
UpdateAlarmKeepsWhenOff(table, existing, attrs, clock) ==
    {IF r.id = existing.id
     THEN [r EXCEPT !.severity = attrs.severity, !.description = attrs.description,
                    !.status = attrs.status, !.updated_at = Some(clock)]
     ELSE r : r \in table}

\* an update that derives the station and the links again, as the insert does
UpdateAlarmRelinks(table, existing, attrs, clock) ==
    {IF r.id = existing.id
     THEN [r EXCEPT !.severity = attrs.severity, !.description = attrs.description,
                    !.when_off = WhenOff(attrs), !.status = attrs.status,
                    !.station_id = AlarmStation(attrs.location_ids),
                    !.locations = AlarmLinks(attrs.location_ids),
                    !.updated_at = Some(clock)]
     ELSE r : r \in table}

\* `model.update(db)` of an existing alarm: the columns that are Set
UpdateAlarm(table, existing, attrs, clock) ==
    {IF r.id = existing.id
     THEN [r EXCEPT !.severity = attrs.severity, !.description = attrs.description,
                    !.when_off = WhenOff(attrs), !.status = attrs.status,
                    !.updated_at = Some(clock)]
     ELSE r : r \in table}

\* `alarm.insert(db)`: a new row, refused by the unique key on
\* vaisala_alarm_id if the table already has the alarm
InsertAlarm(table, attrs, clock) ==
    IF \E r \in table : r.vaisala_alarm_id = attrs.id THEN table
    ELSE table \cup {[id |-> Cardinality(table) + 1, vaisala_alarm_id |-> attrs.id,
                      severity |-> attrs.severity, description |-> attrs.description,
                      when_on |-> WhenOn(attrs, clock),
                      when_off |-> WhenOff(attrs),
                      when_condition |-> WhenCondition(attrs),
                      status |-> attrs.status, is_system |-> attrs.is_system,
                      station_id |-> AlarmStation(attrs.location_ids),
                      locations |-> AlarmLinks(attrs.location_ids),
                      created_at |-> Some(clock), updated_at |-> Some(clock)]}

\* `for resource in response.data`: `ok` holds the positions whose statement
\* succeeds
RECURSIVE UpsertAlarms(_, _, _, _, _, _)
UpsertAlarms(table, existing_alarms, data, i, ok, clock) ==
    IF i > Len(data) THEN table
    ELSE LET attrs == data[i]
             existing == ExistingAlarm(existing_alarms, attrs.id)
             next == IF i \notin ok THEN table
                     ELSE IF IsSome(existing)
                     THEN UpdateAlarm(table, Unwrap(existing), attrs, clock)
                     ELSE InsertAlarm(table, attrs, clock)
         IN UpsertAlarms(next, existing_alarms, data, i + 1, ok, clock)

\* the transition to inactive that leaves when_off as it is
MarkInactiveKeepsWhenOff(table, existing, clock) ==
    {IF r.id = existing.id
     THEN [r EXCEPT !.status = FALSE, !.updated_at = Some(clock)]
     ELSE r : r \in table}

\* the update that marks an alarm inactive
MarkInactive(table, existing, clock) ==
    {IF r.id = existing.id
     THEN [r EXCEPT !.status = FALSE, !.when_off = Some(clock), !.updated_at = Some(clock)]
     ELSE r : r \in table}

\* the alarms the second loop marks: active in the snapshot, not listed
NoLongerActive(existing_alarms, active_ids) ==
    {r \in existing_alarms : r.status /\ r.vaisala_alarm_id \notin active_ids}

RECURSIVE MarkAllInactive(_, _, _, _)
MarkAllInactive(table, todo, ok, clock) ==
    IF todo = {} THEN table
    ELSE LET r == CHOOSE x \in todo : TRUE
             next == IF r.vaisala_alarm_id \in ok THEN MarkInactive(table, r, clock)
                     ELSE table
         IN MarkAllInactive(next, todo \ {r}, ok, clock)

\* the remote API lists other alarms as active
RECURSIVE NoRepeat(_)
NoRepeat(data) ==
    IF data = <<>> THEN TRUE
    ELSE ~InSeq(Head(data), Tail(data)) /\ NoRepeat(Tail(data))

ActiveAlarmsChange(data) ==
    /\ alarm_pc = "wait"
    /\ alarm_ticks < MaxAlarmTicks
    /\ NoRepeat(data)
    /\ data # active_alarms
    /\ active_alarms' = data
    /\ UNCHANGED <<storeVars, envVars, schedVars, apiVars, alarms, alarm_pc,
                   alarm_retries, alarm_ticks, alarm_last, shutdown, discVars, eventVars>>

\* ticker.tick() of run_alarms_sync; the first tick completes at once
AlarmsTick ==
    /\ alarm_pc = "wait"
    /\ alarm_ticks < MaxAlarmTicks
    /\ alarm_ticks' = alarm_ticks + 1
    /\ now' = LET due == NowStart + alarm_ticks * SyncAlarmsInterval
              IN IF due > now THEN due ELSE now
    /\ alarm_retries' = 0
    /\ alarm_pc' = "call"
    /\ UNCHANGED <<storeVars, upstream, ticks, db_faults, fetch_faults, schedVars,
                   apiVars, alarms, active_alarms, alarm_last, shutdown, discVars, eventVars>>

\* sync_alarms returns Ok(())
SyncAlarms ==
    /\ alarm_pc = "call"
    /\ LET data == active_alarms
           existing_alarms == alarms
           active_ids == ActiveIds(data)
           todo == NoLongerActive(existing_alarms, active_ids)
           off_ids == {r.vaisala_alarm_id : r \in todo}
       IN \E ok \in SUBSET (1..Len(data)) : \E off_ok \in SUBSET off_ids :
            LET upserted == UpsertAlarms(alarms, existing_alarms, data, 1, ok, now)
                marked == MarkAllInactive(upserted, todo, off_ok, now)
            IN /\ DbFaults(Len(data) - Cardinality(ok) + Cardinality(off_ids \ off_ok))
               /\ alarms' = marked
               /\ alarm_last' =
                    [deactivated |-> off_ok,
                     reactivated |->
                        {r.vaisala_alarm_id : r \in
                            {x \in existing_alarms :
                                /\ ~x.status
                                /\ \E y \in marked : y.id = x.id /\ y.status}},
                     created |-> {r.vaisala_alarm_id : r \in marked} \
                                 {r.vaisala_alarm_id : r \in existing_alarms}]
    /\ alarm_pc' = "wait"
    /\ UNCHANGED <<storeVars, upstream, now, ticks, fetch_faults, schedVars, apiVars,
                   active_alarms, alarm_retries, alarm_ticks, shutdown, discVars, eventVars>>

\* the Err(e) arm of run_alarms_sync
AlarmsErrArm ==
    /\ alarm_retries' = alarm_retries + 1
    /\ alarm_pc' = IF alarm_retries + 1 <= SyncRetryMax THEN "sleep" ELSE "wait"

\* sync_alarms returns Err: get_active_alarms failed
SyncAlarmsFetchFails ==
    /\ alarm_pc = "call"
    /\ fetch_faults < MaxFetchFaults
    /\ fetch_faults' = fetch_faults + 1
    /\ AlarmsErrArm
    /\ UNCHANGED <<storeVars, upstream, now, ticks, db_faults, schedVars, apiVars,
                   alarms, active_alarms, alarm_ticks, alarm_last, shutdown, discVars, eventVars>>

\* sync_alarms returns Err: the load of the sensors or of the alarms failed
SyncAlarmsLoadFails ==
    /\ alarm_pc = "call"
    /\ DbFaults(1)
    /\ AlarmsErrArm
    /\ UNCHANGED <<storeVars, upstream, now, ticks, fetch_faults, schedVars, apiVars,
                   alarms, active_alarms, alarm_ticks, alarm_last, shutdown, discVars, eventVars>>

\* tokio::time::sleep(retry_delay) of run_alarms_sync
AlarmsRetrySleep ==
    /\ alarm_pc = "sleep"
    /\ now' = now + SyncRetryDelay
    /\ alarm_pc' = "call"
    /\ UNCHANGED <<storeVars, upstream, ticks, db_faults, fetch_faults, schedVars,
                   apiVars, alarms, active_alarms, alarm_retries, alarm_ticks, alarm_last, shutdown, discVars, eventVars>>

RECURSIVE SeqsUpTo(_, _)
SeqsUpTo(S, n) ==
    IF n = 0 THEN {<<>>}
    ELSE SeqsUpTo(S, n - 1) \cup {Append(q, x) : q \in SeqsUpTo(S, n - 1), x \in S}

NextAlarms ==
    \/ \E data \in SeqsUpTo(AlarmPool, MaxActiveAlarms) : ActiveAlarmsChange(data)
    \/ AlarmsTick
    \/ SyncAlarms
    \/ SyncAlarmsFetchFails
    \/ SyncAlarmsLoadFails
    \/ AlarmsRetrySleep

SpecAlarms == InitApi /\ [][NextAlarms]_vars

(***************************************************************************)
(* Properties of the alarms synchroniser.                                  *)
(***************************************************************************)
\* the step of a sync_alarms that returns Ok
SyncAlarmsOk == alarm_pc = "call" /\ alarm_pc' = "wait" /\ alarm_retries' = alarm_retries

Listed(r) == r.vaisala_alarm_id \in ActiveIds(active_alarms)

Transitioned(r) ==
    [r EXCEPT !.status = FALSE, !.when_off = Some(now), !.updated_at = Some(now)]

\* the row carries the status and when_off of a listed record of its alarm
FromUpstream(x) ==
    \E i \in 1..Len(active_alarms) :
        /\ active_alarms[i].id = x.vaisala_alarm_id
        /\ x.status = active_alarms[i].status
        /\ x.when_off = WhenOff(active_alarms[i])

\* what a sync may do to a stored alarm that is listed: it keeps when_on and
\* either leaves status and when_off or takes them from a listed record
NotTransitioned(r, x) ==
    /\ x.when_on = r.when_on
    /\ (x.status = r.status /\ x.when_off = r.when_off) \/ FromUpstream(x)

RowsOfAlarm(table, vaisala_alarm_id) == {x \in table : x.vaisala_alarm_id = vaisala_alarm_id}

RowConsistent(x) == x.status <=> x.when_off = None

\* C19 as stated: every stored alarm has status = true iff when_off is absent.
C19_StatusIffNoWhenOff == \A r \in alarms : RowConsistent(r)

\* C19 amended: a sync leaves a row with status = true iff when_off absent
\* unless the row is one it did not write or it copied the row's status and
\* when_off from a listed record that does not satisfy this itself.
C19_StatusIffNoWhenOffUnlessUpstream ==
    [][SyncAlarmsOk =>
          \A x \in alarms' :
              \/ RowConsistent(x)
              \/ x \in alarms
              \/ \E i \in 1..Len(active_alarms) :
                    /\ active_alarms[i].id = x.vaisala_alarm_id
                    /\ ~(active_alarms[i].status <=> WhenOff(active_alarms[i]) = None)
                    /\ x.status = active_alarms[i].status
                    /\ x.when_off = WhenOff(active_alarms[i])]_vars

\* C19 witness: after a re-activation, an active and an inactive alarm are
\* stored and both satisfy the equivalence.
C19_Witness ==
    /\ alarm_last.reactivated # {}
    /\ \E r \in alarms : r.status /\ r.when_off = None
    /\ \E r \in alarms : ~r.status /\ r.when_off # None
    /\ \A r \in alarms : RowConsistent(r)

\* the row carries what an update copies from a listed record of its alarm
RewrittenFrom(x, attrs) ==
    /\ x.severity = attrs.severity
    /\ x.description = attrs.description
    /\ x.when_off = WhenOff(attrs)
    /\ x.status = attrs.status
    /\ x.updated_at = Some(now)

\* C32: a sync that finds a listed alarm already stored rewrites, in the row
\* of that alarm, only what an update copies (severity, description, when_off,
\* status, updated_at and the columns of their kind); the row's id, upstream
\* id, station reference, when_on, when_condition, is_system, created_at and
\* its alarm_locations links stay as they were.
C32_UpdateKeepsStationAndLinks ==
    [][SyncAlarmsOk =>
          \A r \in alarms : Listed(r) =>
              \E x \in alarms' :
                  /\ x.id = r.id
                  /\ x.vaisala_alarm_id = r.vaisala_alarm_id
                  /\ x.station_id = r.station_id
                  /\ x.when_on = r.when_on
                  /\ x.when_condition = r.when_condition
                  /\ x.is_system = r.is_system
                  /\ x.locations = r.locations
                  /\ x.created_at = r.created_at
                  /\ \/ x = r /\ db_faults' > db_faults
                     \/ \E i \in 1..Len(active_alarms) :
                           /\ active_alarms[i].id = r.vaisala_alarm_id
                           /\ RewrittenFrom(x, active_alarms[i])]_vars

\* the last sync has updated a stored alarm from a record whose when_on,
\* when_condition, is_system and locations are not those of the row
C32_Witness ==
    /\ alarm_pc = "wait"
    /\ \E r \in alarms : \E i \in 1..Len(active_alarms) :
         /\ active_alarms[i].id = r.vaisala_alarm_id
         /\ r.created_at # r.updated_at
         /\ RewrittenFrom(r, active_alarms[i])
         /\ r.when_on # WhenOn(active_alarms[i], now)
         /\ r.when_condition # WhenCondition(active_alarms[i])
         /\ r.is_system # active_alarms[i].is_system
         /\ r.locations # AlarmLinks(active_alarms[i].location_ids)

(***************************************************************************)
(* sync_locations in full: zones, stations and sensors out of the location *)
(* hierarchy.  The function runs once at the start of the process, so a    *)
(* further run is a restart; it reads the three tables at its start and    *)
(* nothing else writes them, so a call is one step.  A path is kept as the *)
(* sequence of its segments, Uuid::new_v4() is a number not used before.   *)
(* A row keeps the columns the unique indexes and the foreign keys are     *)
(* about.                                                                  *)
(***************************************************************************)
MaxListed == 3

Location(node_id, path, leaf, deleted) ==
    [node_id |-> node_id, path |-> path, leaf |-> leaf, deleted |-> deleted]

ZoneBreathe == Location(1, <<"viewLinc", "BREATHE">>, FALSE, FALSE)
ZoneBreatheAgain == Location(2, <<"viewLinc", "Breathe">>, FALSE, FALSE)
StationMartigny == Location(10, <<"viewLinc", "BREATHE", "Martigny">>, FALSE, FALSE)
SensorDepth == Location(1001, <<"viewLinc", "BREATHE", "Martigny", "MDepthmm">>, TRUE, FALSE)
Deleted(attrs) == [attrs EXCEPT !.deleted = TRUE]
LocationPool ==
    {ZoneBreathe, ZoneBreatheAgain, StationMartigny, SensorDepth,
     Deleted(StationMartigny), Deleted(SensorDepth)}

\* the responses of get_locations: a node is listed once
Hierarchies ==
    {data \in SeqsUpTo(LocationPool, MaxListed) :
        \A i, j \in 1..Len(data) : data[i].node_id = data[j].node_id => i = j}

\* Uuid::new_v4()
NewUuid(st) == Cardinality(st.zones) + Cardinality(st.stations) + Cardinality(st.sensors) + 1

\* the locals of sync_locations before its loop
Existing ==
    [zones |-> zones, stations |-> stations, sensors |-> sensor_rows, sync |-> sync_state,
     zone_ids |-> [n \in {z.name : z \in zones} |-> (CHOOSE z \in zones : z.name = n).id],
     station_ids |-> [n \in {x.vaisala_node_id : x \in stations} |->
                        (CHOOSE x \in stations : x.vaisala_node_id = n).id],
     existing_sensors |-> {r.vaisala_location_id : r \in sensor_rows},
     new_sensor_location_ids |-> <<>>,
     failed |-> 0]

\* the (2, false) arm; the insert fails on zones_name_lower_idx, or when
\* `fail`, and the error is logged
CreateZone(st, attrs, fail) ==
    LET zone_name == attrs.path[2]
        zone == [id |-> NewUuid(st), name |-> zone_name]
    IN IF zone_name \in DOMAIN st.zone_ids THEN st
       ELSE IF \E z \in st.zones : Lower(z.name) = Lower(zone_name) THEN st
       ELSE IF fail THEN [st EXCEPT !.failed = st.failed + 1]
       ELSE [st EXCEPT !.zones = st.zones \cup {zone},
                       !.zone_ids = (zone_name :> zone.id) @@ st.zone_ids]

\* the (3, false) arm; the insert fails on the unique vaisala_node_id, on
\* stations_name_lower_idx, or when `fail`, and the error is logged
CreateStation(st, attrs, fail) ==
    LET zone_name == attrs.path[2]
        station_name == attrs.path[3]
        zone_id == IF zone_name \in DOMAIN st.zone_ids THEN Some(st.zone_ids[zone_name]) ELSE None
        station == [id |-> NewUuid(st), zone_id |-> zone_id, name |-> station_name,
                    vaisala_node_id |-> attrs.node_id]
    IN IF attrs.node_id \in DOMAIN st.station_ids THEN st
       ELSE IF \E x \in st.stations : \/ x.vaisala_node_id = attrs.node_id
                                      \/ Lower(x.name) = Lower(station_name) THEN st
       ELSE IF fail THEN [st EXCEPT !.failed = st.failed + 1]
       ELSE [st EXCEPT !.stations = st.stations \cup {station},
                       !.station_ids = (attrs.node_id :> station.id) @@ st.station_ids]

\* one turn of `for resource in &locations.data`
ProcessLocation(st, attrs, fail) ==
    IF attrs.deleted THEN st
    ELSE IF Len(attrs.path) = 2 /\ ~attrs.leaf THEN CreateZone(st, attrs, fail)
    ELSE IF Len(attrs.path) = 3 /\ ~attrs.leaf THEN CreateStation(st, attrs, fail)
    ELSE IF attrs.leaf /\ Len(attrs.path) >= 4 /\ attrs.node_id \notin st.existing_sensors
    THEN [st EXCEPT !.new_sensor_location_ids = Append(st.new_sensor_location_ids, attrs.node_id)]
    ELSE st

RECURSIVE ProcessLocations(_, _, _, _)
ProcessLocations(st, data, i, fails) ==
    IF i > Len(data) THEN st
    ELSE ProcessLocations(ProcessLocation(st, data[i], i \in fails), data, i + 1, fails)

\* get_locations_data(&new_sensor_location_ids): one record per id asked for,
\* its location_path the path the hierarchy lists for that node
LocationsData(data, location_ids) ==
    [k \in 1..Len(location_ids) |->
        [id |-> location_ids[k],
         location_path |-> (CHOOSE attrs \in {data[i] : i \in 1..Len(data)} :
                               attrs.node_id = location_ids[k]).path]]

\* locations.data.iter().find(|r| r.attributes.path == station_path)
\*     .map(|r| r.attributes.node_id)
StationNodeId(data, station_path) ==
    LET found == {i \in 1..Len(data) : data[i].path = station_path}
    IN IF found = {} THEN None
       ELSE Some(data[CHOOSE i \in found : \A j \in found : i <= j].node_id)

\* a sensor insert that is not followed by the insert of its sync_state row
CreateSensorNoState(st, data, attrs, fail, state_fail) ==
    LET parts == attrs.location_path
        station_node_id == StationNodeId(data, SubSeq(parts, 1, 3))
    IN IF Len(parts) < 4 THEN st
       ELSE IF ~IsSome(station_node_id) \/ Unwrap(station_node_id) \notin DOMAIN st.station_ids THEN st
       ELSE LET sensor == [id |-> NewUuid(st),
                           station_id |-> st.station_ids[Unwrap(station_node_id)],
                           vaisala_location_id |-> attrs.id,
                           name |-> parts[Len(parts)]]
            IN IF \E r \in st.sensors : \/ r.vaisala_location_id = sensor.vaisala_location_id
                                        \/ r.station_id = sensor.station_id /\ r.name = sensor.name
               THEN st
               ELSE IF fail THEN [st EXCEPT !.failed = st.failed + 1]
               ELSE [st EXCEPT !.sensors = st.sensors \cup {sensor}]

\* one turn of `for resource in sensor_data.data`: the station is looked up
\* by the first three segments of the path; the sensor insert fails on the
\* unique vaisala_location_id, on idx_sensors_station_name, or when `fail`;
\* `let _ = sync.insert(db).await` drops the error of the row's insert
CreateSensor(st, data, attrs, fail, state_fail) ==
    LET parts == attrs.location_path
        station_node_id == StationNodeId(data, SubSeq(parts, 1, 3))
    IN IF Len(parts) < 4 THEN st
       ELSE IF ~IsSome(station_node_id) \/ Unwrap(station_node_id) \notin DOMAIN st.station_ids THEN st
       ELSE LET sensor == [id |-> NewUuid(st),
                           station_id |-> st.station_ids[Unwrap(station_node_id)],
                           vaisala_location_id |-> attrs.id,
                           name |-> parts[Len(parts)]]
            IN IF \E r \in st.sensors : \/ r.vaisala_location_id = sensor.vaisala_location_id
                                        \/ r.station_id = sensor.station_id /\ r.name = sensor.name
               THEN st
               ELSE IF fail THEN [st EXCEPT !.failed = st.failed + 1]
               ELSE IF state_fail
               THEN [st EXCEPT !.sensors = st.sensors \cup {sensor}, !.failed = st.failed + 1]
               ELSE [st EXCEPT !.sensors = st.sensors \cup {sensor},
                               !.sync = (sensor.id :> PendingRow) @@ st.sync]

RECURSIVE CreateSensors(_, _, _, _, _, _)
CreateSensors(st, data, sensor_data, k, fails, state_fails) ==
    IF k > Len(sensor_data) THEN st
    ELSE CreateSensors(CreateSensor(st, data, sensor_data[k], k \in fails, k \in state_fails),
                       data, sensor_data, k + 1, fails, state_fails)

\* the remote hierarchy is edited while the process is down
HierarchyChange(data) ==
    /\ hierarchy = <<>> \/ IsSome(last_run)
    /\ data # hierarchy
    /\ hierarchy' = data
    /\ last_run' = None
    /\ UNCHANGED <<storeVars, envVars, schedVars, apiVars, alarmVars, shutdown,
                   zones, stations, sensor_rows, eventVars>>

\* a call of sync_locations that gets the hierarchy and the three tables;
\* it returns Err, with the zones and the stations written, when
\* get_locations_data fails
DiscoverLocations ==
    \E fails \in SUBSET (1..Len(hierarchy)) :
    \E sensor_fails, state_fails \in SUBSET (1..MaxListed) :
    \E data_ok \in BOOLEAN :
        /\ Cardinality(fails) + Cardinality(sensor_fails) + Cardinality(state_fails)
               <= MaxDbFaults - db_faults
        /\ LET listed == ProcessLocations(Existing, hierarchy, 1, fails)
               sensor_data == LocationsData(hierarchy, listed.new_sensor_location_ids)
               asked == listed.new_sensor_location_ids # <<>>
               st == IF asked /\ data_ok
                     THEN CreateSensors(listed, hierarchy, sensor_data, 1, sensor_fails, state_fails)
                     ELSE listed
           IN /\ asked \/ data_ok
              /\ Cardinality(fails) + Cardinality(sensor_fails) + Cardinality(state_fails) = st.failed
              /\ DbFaults(st.failed)
              /\ IF data_ok THEN UNCHANGED fetch_faults
                 ELSE fetch_faults < MaxFetchFaults /\ fetch_faults' = fetch_faults + 1
              /\ zones' = st.zones
              /\ stations' = st.stations
              /\ sensor_rows' = st.sensors
              /\ sensors' = {r.id : r \in st.sensors}
              /\ sync_state' = st.sync
              /\ last_run' = Some([clean |-> data_ok /\ st.failed = 0, again |-> IsSome(last_run)])
              /\ UNCHANGED <<readings, readings_hourly, upstream, now, ticks, schedVars, apiVars,
                             alarmVars, shutdown, hierarchy, eventVars>>

\* a call of sync_locations that returns Err before its loop: get_locations
\* fails, or one of the three queries
DiscoverLocationsFails ==
    /\ \/ fetch_faults < MaxFetchFaults /\ fetch_faults' = fetch_faults + 1 /\ UNCHANGED db_faults
       \/ DbFaults(1) /\ UNCHANGED fetch_faults
    /\ UNCHANGED <<storeVars, upstream, now, ticks, schedVars, apiVars, alarmVars, shutdown,
                   discVars, eventVars>>

NextDiscovery ==
    \/ \E data \in Hierarchies : HierarchyChange(data)
    \/ DiscoverLocations
    \/ DiscoverLocationsFails

SpecDiscovery == Init /\ [][NextDiscovery]_vars

(***************************************************************************)
(* Properties of discovery.                                                *)
(***************************************************************************)
\* the response lists, not deleted, the zone of that name
ListedZone(zone_name) ==
    \E i \in 1..Len(hierarchy) :
        /\ ~hierarchy[i].deleted /\ ~hierarchy[i].leaf
        /\ Len(hierarchy[i].path) = 2 /\ hierarchy[i].path[2] = zone_name

\* C33: whatever the order of the entries in the hierarchy response, a
\* station that sync_locations creates, and whose zone is listed (not
\* deleted) in the same response, is stored with the id of that zone; no
\* statement of the run has failed.
C33_StationGetsItsListedZone ==
    [][db_faults' = db_faults =>
          \A x \in stations' \ stations : \A i \in 1..Len(hierarchy) :
              (hierarchy[i].node_id = x.vaisala_node_id /\ ListedZone(hierarchy[i].path[2]))
                  => \E z \in zones' : z.name = hierarchy[i].path[2] /\ x.zone_id = Some(z.id)]_vars

UniquelyDiscovered ==
    /\ \A a, b \in sensor_rows : a.vaisala_location_id = b.vaisala_location_id => a = b
    /\ \A a, b \in stations : a.vaisala_node_id = b.vaisala_node_id => a = b
    /\ \A a, b \in zones : a.name = b.name => a = b

\* every entity the step creates is that of a listed location not deleted
CreatedFromListed ==
    /\ \A z \in zones' \ zones : ListedZone(z.name)
    /\ \A x \in stations' \ stations : \E i \in 1..Len(hierarchy) :
          /\ ~hierarchy[i].deleted /\ ~hierarchy[i].leaf
          /\ hierarchy[i].node_id = x.vaisala_node_id
    /\ \A r \in sensor_rows' \ sensor_rows : \E i \in 1..Len(hierarchy) :
          /\ ~hierarchy[i].deleted /\ hierarchy[i].leaf
          /\ hierarchy[i].node_id = r.vaisala_location_id

NoEntityCreated == UNCHANGED <<zones, stations, sensor_rows>>

HasPendingState(r) ==
    /\ r.id \in DOMAIN sync_state'
    /\ sync_state'[r.id].sync_status = "pending"
    /\ sync_state'[r.id].retry_count = 0

I32Bits == 4
PageSize == 2
I32Max == 2^(I32Bits - 1) - 1
I32Overflows(n) == n > I32Max \/ n < -I32Max - 1
I32Wrap(n) == ((n + I32Max + 1) % 2^I32Bits) - I32Max - 1

\* EventAttributes
Event(num, timestamp, message) == [num |-> num, timestamp |-> timestamp, message |-> message]
EventPool ==
    {Event(1, NowStart - 50, "Alarm on"), Event(1, NowStart - 50, "Alarm on (edited)"),
     Event(2, NowStart - 40, "Login")}

\* what the remote API reports as meta.total_record_count (None: no meta)
TotalPool == {None} \cup {Some(n) : n \in 0..I32Max}

\* events::Entity::find().order_by_desc(Time).one(db), then
\* e.time.timestamp().to_string(), or "7d"
EventsDateFrom(table) ==
    IF table = {} THEN "7d"
    ELSE ToString(CHOOSE t \in {r.time : r \in table} : \A r \in table : r.time <= t)

\* event.insert(db): the primary key is (vaisala_event_num, time); the
\* error of a failed insert is logged or, for a duplicate, ignored
InsertEvent(table, attrs, clock, fail) ==
    LET time == IF IsSome(FromTimestamp(attrs.timestamp)) THEN attrs.timestamp ELSE clock
        event == [time |-> time, vaisala_event_num |-> attrs.num, message |-> attrs.message]
    IN IF \E r \in table : r.vaisala_event_num = event.vaisala_event_num /\ r.time = event.time
       THEN table
       ELSE IF fail THEN table
       ELSE table \cup {event}

\* for resource in &response.data
RECURSIVE InsertEvents(_, _, _, _, _)
InsertEvents(table, data, i, clock, fails) ==
    IF i > Len(data) THEN table
    ELSE InsertEvents(InsertEvent(table, data[i], clock, i \in fails), data, i + 1, clock, fails)

\* the inserts of the page that fail for another reason than a duplicate
FailedInserts(table, data, clock, fails) ==
    Cardinality({i \in fails : InsertEvents(table, SubSeq(data, 1, i), 1, clock, fails)
                                 = InsertEvents(table, SubSeq(data, 1, i - 1), 1, clock, fails)
                               /\ InsertEvents(table, SubSeq(data, 1, i), 1, clock, fails \ {i})
                                 # InsertEvents(table, SubSeq(data, 1, i - 1), 1, clock, fails)})

\* sync_events up to its loop; it returns Err when one of its two queries fails
EventsStart ==
    /\ ev_pc = "idle"
    /\ \E db_ok \in BOOLEAN : \E total \in TotalPool :
         /\ DbFaults(Fault(db_ok))
         /\ event_total' = total
         /\ IF db_ok
            THEN /\ ev_date_from' = EventsDateFrom(events)
                 /\ ev_page' = 1
                 /\ ev_pc' = "page"
                 /\ ev_request' = None
                 /\ ev_response' = None
            ELSE UNCHANGED <<ev_date_from, ev_page, ev_pc, ev_request, ev_response>>
    /\ UNCHANGED <<storeVars, upstream, now, ticks, fetch_faults, schedVars, apiVars, alarmVars,
                   shutdown, discVars, events>>

\* a test that ends the loop on a short page only
LastPageShortOnly(count, total_records, data) == Len(data) < PageSize

\* the test that ends the loop, on the i32 the product gave
LastPage(count, total_records, data) == count >= total_records \/ Len(data) < PageSize

\* one turn of the loop: get_events answers `data`, the events are inserted,
\* and the loop ends or goes to the next page (page += 1 leaves the type only
\* in a wrapping build: with overflow checks the product has panicked before)
EventsPage ==
    /\ ev_pc = "page"
    /\ \E data \in SeqsUpTo(EventPool, PageSize) : \E fails \in SUBSET (1..Len(data)) :
       \E build \in {"overflow-checks", "wrapping"} :
         LET total_records == IF IsSome(event_total) THEN Unwrap(event_total) ELSE 0
             product == ev_page * PageSize
             wrapped == I32Wrap(product)
             next_page == ev_page + 1
         IN /\ ev_request' = Some([date_from |-> ev_date_from, page |-> ev_page, page_size |-> PageSize])
            /\ ev_response' = Some(data)
            /\ DbFaults(FailedInserts(events, data, now, fails))
            /\ FailedInserts(events, data, now, fails) = Cardinality(fails)
            /\ events' = InsertEvents(events, data, 1, now, fails)
            /\ IF data = <<>> THEN ev_pc' = "idle" /\ UNCHANGED ev_page
               ELSE IF I32Overflows(product) /\ build = "overflow-checks"
               THEN ev_pc' = "panicked" /\ UNCHANGED ev_page
               ELSE IF LastPage(wrapped, total_records, data)
               THEN ev_pc' = "idle" /\ UNCHANGED ev_page
               ELSE ev_pc' = "page" /\ ev_page' = I32Wrap(next_page)
    /\ UNCHANGED <<sensors, sync_state, readings, readings_hourly, upstream, now, ticks, fetch_faults,
                   schedVars, apiVars, alarmVars, shutdown, discVars, event_total, ev_date_from>>

\* get_events fails: sync_events returns Err
EventsPageFails ==
    /\ ev_pc = "page"
    /\ fetch_faults < MaxFetchFaults
    /\ fetch_faults' = fetch_faults + 1
    /\ ev_pc' = "idle"
    /\ UNCHANGED <<storeVars, upstream, now, ticks, db_faults, schedVars, apiVars, alarmVars,
                   shutdown, discVars, events, event_total, ev_date_from, ev_page, ev_request,
                   ev_response>>

NextEvents ==
    \/ EventsStart
    \/ EventsPage
    \/ EventsPageFails

SpecEvents == Init /\ [][NextEvents]_vars

(***************************************************************************)
(* Properties of the events synchroniser.                                  *)
(***************************************************************************)
\* a turn of the loop has been taken
PageStep == ev_pc = "page" /\ ev_request' # ev_request

\* the loop has asked for pages 1, 2, ..., page of PageSize events each, from
\* the date_from the call began with
AsksNextPage ==
    /\ Unwrap(ev_request').date_from = ev_date_from
    /\ Unwrap(ev_request').page_size = PageSize
    /\ Unwrap(ev_request').page = IF IsSome(ev_request) THEN Unwrap(ev_request).page + 1 ELSE 1

\* the page just received ends the loop: the events received so far are as
\* many as the reported total, or the page is short
EndsTheLoop ==
    \/ IsSome(event_total) /\ Unwrap(ev_request').page * PageSize >= Unwrap(event_total)
    \/ Len(Unwrap(ev_response')) < PageSize

EventKeysUnique ==
    \A a, b \in events : (a.vaisala_event_num = b.vaisala_event_num /\ a.time = b.time) => a = b

StoredAtLookup(req) ==
    {r \in Unwrap(req.entry).written_over \cup req.since :
        /\ InSeq(r.sensor_id, req.sensors_list)
        /\ IsSome(req.q.start) => r.time >= Unwrap(req.q.start)}

\* the payload has the value of reading r at its time, for its sensor
InPayload(data, r) ==
    \E j \in 1..Len(data.times) : \E k \in 1..Len(data.sensors) :
        /\ data.times[j] = r.time
        /\ data.sensors[k].id = r.sensor_id
        /\ data.sensors[k].values[j] = Some(r.value)

\* C39: a JSON readings request without an end bound that is answered HIT,
\* from an entry written with a newest time and with no database statement
\* failed, is answered with a payload that holds every reading of its
\* sensors the store had at the lookup, a sensor behind the others and a
\* reading stored while the payload was on its way into the cache included.
C39_HitPayloadHoldsTheStore ==
    \A i \in JsonLookups :
        (/\ db_faults = 0
         /\ reqs[i].q.endpoint = "readings"
         /\ reqs[i].query_end = None
         /\ IsSome(Unwrap(reqs[i].entry).max_time)
         /\ IsHit(reqs[i]))
            => \A r \in StoredAtLookup(reqs[i]) : InPayload(Unwrap(reqs[i].entry).data, r)

(***************************************************************************)
(* The bulk permits.                                                       *)
(***************************************************************************)
HeldPermits(endpoint) ==
    Cardinality({i \in 1..Len(reqs) : reqs[i].q.endpoint = endpoint /\ reqs[i].permit})

\* C40: for each bulk semaphore the permits available and the permits held
\* add up to the limit; a request that has left its handler, by the empty
\* sensor list, by a database error or with its response built, holds none,
\* so that with every request finished each semaphore is full again.
C40_BulkPermitsConserved ==
    /\ readings_permits + HeldPermits("readings") = BULK_CONCURRENT_LIMIT
    /\ aggregates_permits + HeldPermits("aggregates") = BULK_CONCURRENT_LIMIT
    /\ \A i \in 1..Len(reqs) : reqs[i].pc = "done" => ~reqs[i].permit
    /\ (\A i \in 1..Len(reqs) : reqs[i].pc = "done")
          => /\ readings_permits = BULK_CONCURRENT_LIMIT
             /\ aggregates_permits = BULK_CONCURRENT_LIMIT

\* two bulk requests have taken a permit and left, one through the empty
\* sensor list and one through a failed query, and the semaphore is full
C40_Witness ==
    /\ readings_permits = BULK_CONCURRENT_LIMIT
    /\ \E i, j \in 1..Len(reqs) :
         /\ reqs[i].acquired /\ reqs[i].pc = "done" /\ reqs[i].sensors_list = <<>>
         /\ reqs[j].acquired /\ reqs[j].pc = "done"
         /\ Unwrap(reqs[j].response).status = 500

====
